---- MODULE Spec2Model ----
(***************************************************************************)
(* Deployment orchestration of the admin portal.                           *)
(*                                                                         *)
(*   server/trpc.ts           appRouter.clients.deploy (the request        *)
(*                            handler: ledger writes around the deployer)  *)
(*   scripts/deploy-client.ts ClientDeployer.deployClient and              *)
(*                            waitForDeployment (the provisioning sequence *)
(*                            and the polling loop)                        *)
(*   scripts/railway-api.ts   RailwayApiClient (the remote calls)          *)
(*   database/db.ts           the ledger: clients, deployments, audit log  *)
(*                                                                         *)
(* Every `await` of the code is a location of a request: the awaited       *)
(* operation is in flight while the request stands there, and one action   *)
(* is the code that runs from the completion of one await to the issue of  *)
(* the next one.  Requests of different callers interleave at the awaits.  *)
(***************************************************************************)
EXTENDS Integers, Sequences, FiniteSets, TLC

VARIABLES
    clients,      \* table clients: id -> row (only the ids that exist)
    deployments,  \* table deployments (the ledger): id -> row
    statusHist,   \* history: id -> the statuses the ledger row has taken
    auditLog,     \* table audit_log, in insertion order
    nextId,       \* the next deployment id nanoid() hands out
    remote,       \* the remote platform: projects that exist, next project id,
                  \* the client each project was created for (its name)
    now,          \* the last reading of the wall clock (new Date(), defaultNow())
    dbFaults,     \* how many database calls have thrown so far
    proc,         \* the requests being served: one record per caller
    poll,         \* waitForDeployment run alone with the exact clock
    lendpro,      \* table client_lendpro_config: client id -> row
    pure,         \* a pure function applied on its own: input and output
    auth,         \* tables admin_users and sessions, the clock, the calls of
                  \* server/auth.ts in progress
    settings,     \* table client_branding and the calls that write it
    migration     \* the admin_users migration: its flags, the table, its calls

vars == <<clients, deployments, statusHist, auditLog, nextId, remote, now,
          dbFaults, proc, poll, lendpro, pure, auth, settings, migration>>

----------------------------------------------------------------------------
(* Bounds of the model.                                                    *)

\* deploy requests served in one behaviour when callers run concurrently
MaxDeployments == 2
\* deploy requests served in one behaviour of a single caller
MaxRequests == 1
\* half poll intervals by which a remote answer or a timer may be late
MaxLate == 1
\* database calls that throw in one behaviour
MaxDbFaults == 1
\* the last reading of the wall clock
MaxNow == 2
\* how many audit entries are written before the callers stop changing
\* clients
MaxAudit == 2

(* Program constants.                                                      *)

\* deploy-client.ts:204  const pollInterval = 5000
pollInterval == 5000
\* deploy-client.ts:96   waitForDeployment(deployment.deploymentId, 300000)
DeployTimeout == 300000

Procs == {"p1", "p2"}
ClientIds == {"c1", "c2"}
\* an id no client row has
UnknownId == "c0"

\* SQL NULL / JS null / undefined in a string-valued place
NULL == "null"
\* a timestamp column that is NULL (completedAt); clock readings start at 1
NoTime == 0

NonTerminal == {"pending", "building", "deploying"}
Terminal == {"success", "failed", "cancelled"}
\* schema.ts: mysqlEnum("status", [...]) of deployments
DeploymentStatuses == NonTerminal \cup Terminal

----------------------------------------------------------------------------
(* The ledger (database/db.ts).  One statement on one row is atomic.       *)

\* the row with the columns named in upd overwritten: .set(updates)
ApplyUpdate(row, upd) ==
    [f \in DOMAIN row |-> IF f \in DOMAIN upd THEN upd[f] ELSE row[f]]

\* updateClient without its WHERE clause: every row is overwritten
updateClientEveryRow(tbl, clientId, upd) ==
    [c \in DOMAIN tbl |-> ApplyUpdate(tbl[c], upd)]

\* updateClient: UPDATE clients SET ... WHERE id = clientId
updateClient(tbl, clientId, upd) ==
    [c \in DOMAIN tbl |->
        IF c = clientId THEN ApplyUpdate(tbl[c], upd) ELSE tbl[c]]

\* updateDeployment: UPDATE deployments SET ... WHERE id = deploymentId
updateDeployment(tbl, deploymentId, upd) ==
    [d \in DOMAIN tbl |->
        IF d = deploymentId THEN ApplyUpdate(tbl[d], upd) ELSE tbl[d]]

\* the status history of the rows after updateDeployment(deploymentId, upd)
histAfter(hist, tbl, deploymentId, upd) ==
    [d \in DOMAIN hist |->
        IF d = deploymentId /\ d \in DOMAIN tbl /\ "status" \in DOMAIN upd
                           /\ upd.status # tbl[d].status
        THEN Append(hist[d], upd.status) ELSE hist[d]]

\* createDeployment's insert: the values given plus the column defaults
\* (errorMessage and completedAt NULL)
NewDeployment(clientId, deploymentType) ==
    [clientId |-> clientId, status |-> "pending",
     deploymentType |-> deploymentType, errorMessage |-> NULL,
     completedAt |-> NoTime]

\* trpc.ts:269  client.client.railwayProjectId ? "redeploy" : "initial"
DeploymentType(clientRow) ==
    IF clientRow.railwayProjectId # NULL THEN "redeploy" ELSE "initial"

\* a client row as clients.create leaves it (trpc.ts:212-217): inactive,
\* no remote handle
NewClient(domain) ==
    [status |-> "inactive", domain |-> domain,
     railwayProjectId |-> NULL, railwayProjectUrl |-> NULL,
     serviceUrl |-> NULL]

\* what a reading of the wall clock may give: no less than the last reading
ClockReadings == now .. MaxNow

\* the ledger rows of a client that are in a non-terminal status
InFlightRows(c) ==
    {d \in DOMAIN deployments :
        deployments[d].clientId = c /\ deployments[d].status \in NonTerminal}

----------------------------------------------------------------------------
(* Values of the deployer (scripts/deploy-client.ts) and of the remote     *)
(* platform client (scripts/railway-api.ts).                               *)

\* the id the remote platform gives its n-th project
ProjectId(n) == "prj" \o ToString(n)

\* deploy-client.ts:121  `https://railway.app/project/${project.projectId}`
ProjectUrl(projectId) == "https://railway.app/project/" \o projectId

\* railway-api.ts:65-75  query() throws when the platform answers with
\* errors or the transport fails
RemoteError == "Railway API Error"

\* deploy-client.ts:216
FailedStatusError(status) == "Deployment failed with status: " \o status

\* deploy-client.ts:222
TimeoutError(timeout) ==
    "Deployment timed out after " \o ToString(timeout) \o "ms"

\* trpc.ts:260
NotFoundError(clientId) == "Client not found: " \o clientId

\* what a failed statement of the ledger throws
DbError == "Admin database error"

\* the statuses the remote platform reports for a build
RemoteStatuses ==
    {"QUEUED", "BUILDING", "DEPLOYING", "SUCCESS", "ACTIVE", "FAILED",
     "CRASHED"}

\* railway-api.ts:222-245  getDeploymentStatus hands on whatever string the
\* platform sent: the statuses above, and others
StatusStrings == RemoteStatuses \cup {"REMOVED", "success", ""}

\* IsSuccessStatus that compares without regard to case
IsSuccessStatusAnyCase(status) ==
    status \in {"SUCCESS", "ACTIVE", "success", "active"}

\* deploy-client.ts:211
IsSuccessStatus(status) == status = "SUCCESS" \/ status = "ACTIVE"

\* IsFailureStatus that forgets CRASHED
IsFailureStatusFailedOnly(status) == status = "FAILED"

\* deploy-client.ts:215
IsFailureStatus(status) == status = "FAILED" \/ status = "CRASHED"

\* LoopContinues with the subtraction the wrong way round
LoopContinuesReversed(clock, startTime, timeout) == startTime - clock < timeout

\* deploy-client.ts:206  while (Date.now() - startTime < timeout)
LoopContinues(clock, startTime, timeout) == clock - startTime < timeout

\* x || d on strings: d when x is undefined, null or empty
OrElse(x, d) == IF x = NULL \/ x = "" THEN d ELSE x

\* railway-api.ts:319  result.service.domains.serviceDomains[0] || null
getServiceDomain(serviceDomains) ==
    IF serviceDomains = <<>> THEN NULL ELSE OrElse(serviceDomains[1], NULL)

\* the public domains a service may have when it is asked for them
ServiceDomainLists == {<<>>, <<"web.up.railway.app">>}

\* deploy-client.ts:117-123  the result of a completed provisioning
SuccessResult(clientId, projectId, serviceUrl) ==
    [success |-> TRUE, clientId |-> clientId, projectId |-> projectId,
     projectUrl |-> ProjectUrl(projectId),
     serviceUrl |-> OrElse(serviceUrl, NULL), error |-> NULL]

\* FailureResult that drops the message of the error
FailureResultNoMessage(clientId, message) ==
    [success |-> FALSE, clientId |-> clientId, projectId |-> NULL,
     projectUrl |-> NULL, serviceUrl |-> NULL, error |-> NULL]

\* deploy-client.ts:124-131  the result when a step threw
FailureResult(clientId, message) ==
    [success |-> FALSE, clientId |-> clientId, projectId |-> NULL,
     projectUrl |-> NULL, serviceUrl |-> NULL, error |-> message]

\* NextCall with the variables set before the web service is created
NextCallVariablesFirst(call) ==
    CASE call = "createProject" -> "createMySQLService"
      [] call = "createMySQLService" -> "setEnvironmentVariables"
      [] call = "setEnvironmentVariables" -> "createService"
      [] call = "createService" -> "triggerDeployment"
      [] call = "triggerDeployment" -> "getDeploymentStatus"
      [] call = "getDeploymentStatus" -> "getServiceDomain"
      [] call = "getServiceDomain" -> "addCustomDomain"

\* deploy-client.ts:43-113  the remote operation deployClient issues once
\* `call` has returned
NextCall(call) ==
    CASE call = "createProject" -> "createMySQLService"
      [] call = "createMySQLService" -> "createService"
      [] call = "createService" -> "setEnvironmentVariables"
      [] call = "setEnvironmentVariables" -> "triggerDeployment"
      [] call = "triggerDeployment" -> "getDeploymentStatus"
      [] call = "getDeploymentStatus" -> "getServiceDomain"
      [] call = "getServiceDomain" -> "addCustomDomain"

\* trpc.ts:302-308  the columns written when the deployer reports success;
\* a column whose value is undefined is left as it is
ActiveUpdate(result) ==
    LET defined == {f \in {"projectId", "projectUrl", "serviceUrl"} :
                        OrElse(result[f], NULL) # NULL}
        column == [projectId |-> "railwayProjectId",
                   projectUrl |-> "railwayProjectUrl",
                   serviceUrl |-> "serviceUrl"]
        cols == {"status"} \cup {column[f] : f \in defined}
    IN  [c \in cols |->
            CASE c = "status" -> "active"
              [] c = "railwayProjectId" -> result.projectId
              [] c = "railwayProjectUrl" -> result.projectUrl
              [] c = "serviceUrl" -> result.serviceUrl]

\* SuccessUpdate that forgets the completion timestamp
SuccessUpdateNoCompletion(t) == [status |-> "success"]

\* trpc.ts:310-313
SuccessUpdate(t) == [status |-> "success", completedAt |-> t]

\* FailedUpdate that forgets the completion timestamp
FailedUpdateNoCompletion(message, t) ==
    [status |-> "failed", errorMessage |-> message]

\* trpc.ts:326-330 and 336-340
FailedUpdate(message, t) ==
    [status |-> "failed", errorMessage |-> message, completedAt |-> t]

\* trpc.ts:316-321  the audit entry of a successful deploy
DeployAudit(deploymentId, result) ==
    [action |-> "deploy_client", resourceType |-> "deployment",
     resourceId |-> deploymentId, details |-> result]

----------------------------------------------------------------------------
(* server/crypto.ts: encryptPassword and decryptPassword.  A string is the *)
(* sequence of its UTF-16 code units, a Buffer the sequence of its bytes.  *)
(* PBKDF2 and AES-256-GCM are replaced by small arithmetic stand-ins that  *)
(* keep what the code relies on: the derived key is a function of master   *)
(* key and salt, decryption under the same key and IV inverts encryption   *)
(* byte by byte, and the tag is a function of key, IV and ciphertext.      *)

\* crypto.ts:8-11
IV_LENGTH == 16
SALT_LENGTH == 64
TAG_LENGTH == 16
KEY_LENGTH == 32

RECURSIVE SumSeq(_)
SumSeq(s) == IF s = <<>> THEN 0 ELSE Head(s) + SumSeq(Tail(s))

RECURSIVE Flatten(_)
Flatten(ss) == IF ss = <<>> THEN <<>> ELSE Head(ss) \o Flatten(Tail(ss))

\* buffer.slice(start, end): the bytes start .. end-1, counted from 0,
\* both ends clamped to the buffer
Slice(buffer, start, end) ==
    LET a == IF start > Len(buffer) THEN Len(buffer) ELSE start
        b == IF end > Len(buffer) THEN Len(buffer) ELSE end
    IN  IF b <= a THEN <<>> ELSE SubSeq(buffer, a + 1, b)

\* U+FFFD, which the encoder writes for an unpaired surrogate and the
\* decoder for a malformed sequence
ReplacementChar == 65533

IsHighSurrogate(u) == u >= 55296 /\ u <= 56319
IsLowSurrogate(u) == u >= 56320 /\ u <= 57343

\* the UTF-8 bytes of the code point cp
Utf8OfCodePoint(cp) ==
    IF cp < 128 THEN <<cp>>
    ELSE IF cp < 2048 THEN <<192 + (cp \div 64), 128 + (cp % 64)>>
    ELSE IF cp < 65536
    THEN <<224 + (cp \div 4096), 128 + ((cp \div 64) % 64), 128 + (cp % 64)>>
    ELSE <<240 + (cp \div 262144), 128 + ((cp \div 4096) % 64),
           128 + ((cp \div 64) % 64), 128 + (cp % 64)>>

\* crypto.ts:59  cipher.update(plaintext, "utf8", ...): the bytes of a
\* string; a surrogate pair is one code point, a surrogate without its
\* partner is written as U+FFFD
RECURSIVE Utf8Encode(_)
Utf8Encode(str) ==
    IF str = <<>> THEN <<>>
    ELSE LET u == Head(str) IN
         IF IsHighSurrogate(u) /\ Len(str) >= 2 /\ IsLowSurrogate(str[2])
         THEN Utf8OfCodePoint(65536 + (u - 55296) * 1024 + (str[2] - 56320))
                  \o Utf8Encode(Tail(Tail(str)))
         ELSE IF IsHighSurrogate(u) \/ IsLowSurrogate(u)
         THEN Utf8OfCodePoint(ReplacementChar) \o Utf8Encode(Tail(str))
         ELSE Utf8OfCodePoint(u) \o Utf8Encode(Tail(str))

\* the code units of the code point cp
CodeUnitsOf(cp) ==
    IF cp < 65536 THEN <<cp>>
    ELSE <<55296 + ((cp - 65536) \div 1024), 56320 + ((cp - 65536) % 1024)>>

IsContinuation(b) == b >= 128 /\ b < 192

\* crypto.ts:107-108  decipher.update(..., "utf8"): the string of the bytes
RECURSIVE Utf8Decode(_)
Utf8Decode(bytes) ==
    IF bytes = <<>> THEN <<>>
    ELSE LET b == Head(bytes)
             n == IF b < 128 THEN 1
                  ELSE IF b >= 194 /\ b < 224 THEN 2
                  ELSE IF b >= 224 /\ b < 240 THEN 3
                  ELSE IF b >= 240 /\ b < 245 THEN 4
                  ELSE 0
             wellFormed == /\ n >= 1
                           /\ Len(bytes) >= n
                           /\ \A i \in 2 .. n : IsContinuation(bytes[i])
             cp == IF n = 1 THEN b
                   ELSE IF n = 2 THEN (b - 192) * 64 + (bytes[2] - 128)
                   ELSE IF n = 3
                   THEN (b - 224) * 4096 + (bytes[2] - 128) * 64
                            + (bytes[3] - 128)
                   ELSE (b - 240) * 262144 + (bytes[2] - 128) * 4096
                            + (bytes[3] - 128) * 64 + (bytes[4] - 128)
         IN  IF wellFormed
             THEN CodeUnitsOf(cp) \o Utf8Decode(Slice(bytes, n, Len(bytes)))
             ELSE <<ReplacementChar>> \o Utf8Decode(Tail(bytes))

\* the character of the base64 digit v, "=" for the padding
Base64Char(v) ==
    IF v < 26 THEN 65 + v
    ELSE IF v < 52 THEN 97 + (v - 26)
    ELSE IF v < 62 THEN 48 + (v - 52)
    ELSE IF v = 62 THEN 43
    ELSE IF v = 63 THEN 47
    ELSE 61

\* the base64 digit of a character, 64 for any other character
Base64Digit(ch) ==
    IF ch >= 65 /\ ch <= 90 THEN ch - 65
    ELSE IF ch >= 97 /\ ch <= 122 THEN ch - 97 + 26
    ELSE IF ch >= 48 /\ ch <= 57 THEN ch - 48 + 52
    ELSE IF ch = 43 THEN 62
    ELSE IF ch = 47 THEN 63
    ELSE 64

\* crypto.ts:73  result.toString("base64"): four characters for every
\* three bytes, the last group padded with "="
Base64Encode(bytes) ==
    LET groups == (Len(bytes) + 2) \div 3
        byte(i) == IF i <= Len(bytes) THEN bytes[i] ELSE 0
        quad(g) ==
            LET n == byte(3 * g - 2) * 65536 + byte(3 * g - 1) * 256
                         + byte(3 * g)
                have == Len(bytes) - 3 * (g - 1)
            IN  <<Base64Char(n \div 262144),
                  Base64Char((n \div 4096) % 64),
                  IF have >= 2 THEN Base64Char((n \div 64) % 64) ELSE 61,
                  IF have >= 3 THEN Base64Char(n % 64) ELSE 61>>
    IN  Flatten([g \in 1 .. groups |-> quad(g)])

\* crypto.ts:88  Buffer.from(encrypted, "base64"): three bytes for every
\* four digits; characters that are no digits are skipped
Base64Decode(str) ==
    LET digits == SelectSeq([i \in 1 .. Len(str) |-> Base64Digit(str[i])],
                            LAMBDA v : v < 64)
        groups == Len(digits) \div 4
        left == Len(digits) % 4
        digit(i) == IF i <= Len(digits) THEN digits[i] ELSE 0
        value(g) == digit(4 * g - 3) * 262144 + digit(4 * g - 2) * 4096
                        + digit(4 * g - 1) * 64 + digit(4 * g)
        triple(g) == <<value(g) \div 65536, (value(g) \div 256) % 256,
                       value(g) % 256>>
        whole == Flatten([g \in 1 .. groups |-> triple(g)])
        last == triple(groups + 1)
    IN  whole \o (IF left = 2 THEN SubSeq(last, 1, 1)
                  ELSE IF left = 3 THEN SubSeq(last, 1, 2)
                  ELSE <<>>)

\* crypto.ts:33  Buffer.from(masterKey, "hex"): one byte for every two hex
\* digits, up to the first pair that holds a character that is no hex digit;
\* a digit left over at the end is dropped (a master key is the sequence of
\* the values of its characters, 0 .. 15 for the hex digits and 16 for any
\* other character)
HexDecode(masterKey) ==
    LET isPair(i) == masterKey[2 * i - 1] < 16 /\ masterKey[2 * i] < 16
        pairs == Cardinality({i \in 1 .. (Len(masterKey) \div 2) :
                                 \A k \in 1 .. i : isPair(k)})
    IN  [i \in 1 .. pairs |-> 16 * masterKey[2 * i - 1] + masterKey[2 * i]]

\* crypto.ts:31-39  deriveKey: KEY_LENGTH bytes out of master key and salt
deriveKey(salt, masterKey) ==
    [j \in 1 .. KEY_LENGTH |->
        (7 * SumSeq(HexDecode(masterKey)) + 3 * SumSeq(salt) + j) % 256]

\* the i-th byte of the key stream of the cipher under key and iv
KeyStream(key, iv, i) ==
    IF iv = <<>> THEN key[((i - 1) % KEY_LENGTH) + 1]
    ELSE (key[((i - 1) % KEY_LENGTH) + 1] + iv[((i - 1) % Len(iv)) + 1] + i)
             % 256

\* crypto.ts:56-60  cipher.update + cipher.final
Encipher(key, iv, bytes) ==
    [i \in 1 .. Len(bytes) |-> (bytes[i] + KeyStream(key, iv, i)) % 256]

\* crypto.ts:103-108  decipher.update + decipher.final
Decipher(key, iv, bytes) ==
    [i \in 1 .. Len(bytes) |-> (bytes[i] + 256 - KeyStream(key, iv, i)) % 256]

\* crypto.ts:63  cipher.getAuthTag(): TAG_LENGTH bytes
AuthTag(key, iv, ciphertext) ==
    [j \in 1 .. TAG_LENGTH |->
        (SumSeq(ciphertext) + Len(ciphertext) + key[j] + SumSeq(iv) + j) % 256]

\* what encryptPassword or decryptPassword gives: a string, or an error
Value(str) == [ok |-> TRUE, value |-> str, error |-> NULL]
Failure(message) == [ok |-> FALSE, value |-> <<>>, error |-> message]

\* crypto.ts:44-78  encryptPassword(plaintext) under the master key of the
\* environment, with the salt and the IV that randomBytes gave
encryptPassword(plaintext, masterKey, salt, iv) ==
    IF masterKey = <<>> THEN Failure("Failed to encrypt password")
    ELSE LET key == deriveKey(salt, masterKey)
             encrypted == Encipher(key, iv, Utf8Encode(plaintext))
             tag == AuthTag(key, iv, encrypted)
         IN  Value(Base64Encode(salt \o iv \o tag \o encrypted))

\* decryptPassword that takes the tag in front of the IV
decryptPasswordTagFirst(encrypted, masterKey) ==
    IF masterKey = <<>> THEN Failure("Failed to decrypt password")
    ELSE LET buffer == Base64Decode(encrypted)
             salt == Slice(buffer, 0, SALT_LENGTH)
             tag == Slice(buffer, SALT_LENGTH, SALT_LENGTH + TAG_LENGTH)
             iv == Slice(buffer, SALT_LENGTH + TAG_LENGTH,
                         SALT_LENGTH + TAG_LENGTH + IV_LENGTH)
             encryptedData ==
                 Slice(buffer, SALT_LENGTH + IV_LENGTH + TAG_LENGTH,
                       Len(buffer))
             key == deriveKey(salt, masterKey)
         IN  IF iv = <<>> \/ tag # AuthTag(key, iv, encryptedData)
             THEN Failure("Failed to decrypt password")
             ELSE Value(Utf8Decode(Decipher(key, iv, encryptedData)))

\* crypto.ts:83-115  decryptPassword(encrypted) under the master key of the
\* environment
decryptPassword(encrypted, masterKey) ==
    IF masterKey = <<>> THEN Failure("Failed to decrypt password")
    ELSE LET buffer == Base64Decode(encrypted)
             salt == Slice(buffer, 0, SALT_LENGTH)
             iv == Slice(buffer, SALT_LENGTH, SALT_LENGTH + IV_LENGTH)
             tag == Slice(buffer, SALT_LENGTH + IV_LENGTH,
                          SALT_LENGTH + IV_LENGTH + TAG_LENGTH)
             encryptedData ==
                 Slice(buffer, SALT_LENGTH + IV_LENGTH + TAG_LENGTH,
                       Len(buffer))
             key == deriveKey(salt, masterKey)
         IN  IF iv = <<>> \/ tag # AuthTag(key, iv, encryptedData)
             THEN Failure("Failed to decrypt password")
             ELSE Value(Utf8Decode(Decipher(key, iv, encryptedData)))

\* how long a plaintext is at most, in code units
MaxPlaintext == 2

\* the code units plaintexts are made of: "a", e-acute (two bytes), a high
\* and a low surrogate (together one code point of four bytes)
CodeUnits == {97, 233, 55357, 56832}

\* the strings of at most MaxPlaintext code units
Plaintexts ==
    UNION {[1 .. n -> CodeUnits] : n \in 0 .. MaxPlaintext}

\* process.env.ENCRYPTION_KEY: unset or empty, or hex digits
MasterKeys == {<<>>, <<1, 2, 3, 4>>, <<10, 11, 12, 13, 14, 15>>}

\* crypto.ts:49-50  what randomBytes may give for the salt and the IV
Salts == {[i \in 1 .. SALT_LENGTH |-> 0],
          [i \in 1 .. SALT_LENGTH |-> (3 * i) % 256]}
IVs == {[i \in 1 .. IV_LENGTH |-> 255],
        [i \in 1 .. IV_LENGTH |-> (5 * i) % 256]}

\* the salt and the IV of one call of encryptPassword in a request
Nonces ==
    {<<[i \in 1 .. SALT_LENGTH |-> 0], [i \in 1 .. IV_LENGTH |-> 255]>>,
     <<[i \in 1 .. SALT_LENGTH |-> (3 * i) % 256],
       [i \in 1 .. IV_LENGTH |-> (5 * i) % 256]>>}

\* the master key of the environment the server runs in
EnvKey == <<1, 2, 3, 4>>

\* the password of a client as clients.create stored it
StoredPassword(plaintext) ==
    encryptPassword(plaintext, EnvKey,
                    CHOOSE salt \in Salts : TRUE,
                    CHOOSE iv \in IVs : TRUE).value

\* a row of client_lendpro_config (trpc.ts:219-223)
NewLendpro(username, password) ==
    [username |-> username, password |-> password]

\* no pure function is being applied
NoEval == [pc |-> "off"]

\* the parts of the server that a specification leaves out
NoAuth == [pc |-> "off"]
NoSettings == [pc |-> "off"]
NoMigration == [pc |-> "off"]
OtherOff == auth = NoAuth /\ settings = NoSettings /\ migration = NoMigration

----------------------------------------------------------------------------
(* ClientDeployer.waitForDeployment (scripts/deploy-client.ts:199-223)     *)
(* with the clock it reads, in milliseconds.                               *)

\* no wait in progress
NoWait ==
    [pc |-> "off", timeout |-> 0, startTime |-> 0, clock |-> 0, polls |-> 0,
     status |-> NULL, outcome |-> "none", message |-> NULL]

\* deploy-client.ts:206-207, 222  the head of the loop: poll again, or throw
\* the timeout
LoopHead(w) ==
    IF LoopContinues(w.clock, w.startTime, w.timeout)
    THEN [w EXCEPT !.pc = "getDeploymentStatus", !.polls = @ + 1]
    ELSE [w EXCEPT !.pc = "done", !.outcome = "throw",
                   !.message = TimeoutError(w.timeout)]

\* deploy-client.ts:203-206  waitForDeployment is entered at clock reading t
WaitStart(timeout, t) ==
    LoopHead([NoWait EXCEPT !.timeout = timeout, !.startTime = t, !.clock = t])

\* how late a remote answer or a timer may be, in half poll intervals
LateSteps == {k * (pollInterval \div 2) : k \in 0 .. MaxLate}

\* deploy-client.ts:207-219  getDeploymentStatus answers `status` after
\* `latency`: return, throw, or sleep
WaitStatus(status, latency) ==
    LET w == [poll EXCEPT !.clock = @ + latency, !.status = status] IN
    /\ poll.pc = "getDeploymentStatus"
    /\ poll' = IF IsSuccessStatus(status)
               THEN [w EXCEPT !.pc = "done", !.outcome = "return"]
               ELSE IF IsFailureStatus(status)
               THEN [w EXCEPT !.pc = "done", !.outcome = "throw",
                              !.message = FailedStatusError(status)]
               ELSE [w EXCEPT !.pc = "sleep"]
    /\ UNCHANGED <<auth, settings, migration, lendpro, pure, clients, deployments, statusHist, auditLog, nextId, remote,
                   now, dbFaults, proc>>

\* deploy-client.ts:207, railway-api.ts:72-75  getDeploymentStatus throws
\* after `latency`: waitForDeployment lets the error through
WaitStatusThrows(latency) ==
    /\ poll.pc = "getDeploymentStatus"
    /\ poll' = [poll EXCEPT !.clock = @ + latency, !.status = NULL,
                            !.pc = "done", !.outcome = "throw",
                            !.message = RemoteError]
    /\ UNCHANGED <<auth, settings, migration, lendpro, pure, clients, deployments, statusHist, auditLog, nextId, remote,
                   now, dbFaults, proc>>

\* deploy-client.ts:219, 278-280  the timer of sleep(pollInterval) fires,
\* `late` after it was due
WaitSleep(late) ==
    /\ poll.pc = "sleep"
    /\ poll' = LoopHead([poll EXCEPT !.clock = @ + pollInterval + late])
    /\ UNCHANGED <<auth, settings, migration, lendpro, pure, clients, deployments, statusHist, auditLog, nextId, remote,
                   now, dbFaults, proc>>

----------------------------------------------------------------------------
(* A request: clients.deploy served for one caller.                        *)

NoResult == FailureResult(NULL, NULL)
NoOutcome == [kind |-> "none", result |-> NoResult, message |-> NULL]

\* a caller with no request in progress
IdleProc ==
    [pc |-> "idle",
     cid |-> NULL,              \* input.clientId
     snap |-> NewClient(NULL),  \* client.client as getClient read it
     did |-> 0,                 \* deploymentId
     stamp |-> NoTime,          \* new Date() in the write that is in flight
     projectId |-> NULL,        \* project.projectId
     serviceUrl |-> NULL,       \* serviceUrl of deployClient
     result |-> NoResult,       \* what deployClient returned
     caught |-> NULL,           \* the message of the error in the catch block
     outcome |-> NoOutcome,     \* what the caller received
     calls |-> <<>>,            \* history: remote operations issued, polls once
     inflight |-> {},           \* remote operations issued and not returned
     stepError |-> NULL,        \* history: the error a provisioning step threw
     provisioned |-> FALSE,     \* history: every step returned, poll saw success
     domainFailed |-> FALSE,    \* history: addCustomDomain threw
     dbFault |-> FALSE,         \* history: a ledger call of this request threw
     updates |-> <<>>,          \* the columns clients.create or updateLendpro
                                \* is about to write, and what it will log
     remoteFailed |-> FALSE,    \* history: deleteProject threw
     conflict |-> FALSE,        \* history: called while a row of the client
                                \* was in a non-terminal status
     wrote |-> NULL]            \* history: the last client status it wrote

\* the request of r with `call` issued to the remote platform and awaited
Issue(r, call) ==
    [r EXCEPT !.pc = call,
              !.inflight = @ \cup {call},
              !.calls = IF call = "getDeploymentStatus" /\ @ # <<>>
                           /\ @[Len(@)] = call
                        THEN @ ELSE Append(@, call)]

\* the request of r with the awaited `call` returned
Returned(r, call) == [r EXCEPT !.inflight = @ \ {call}]

\* trpc.ts:298-333  deployClient has returned `result`: the handler issues
\* the first write of the branch it takes
HandleResult(r, result) ==
    [r EXCEPT !.result = result,
              !.pc = IF result.success THEN "updateClientActive"
                     ELSE "updateClientFailed"]

\* StepThrows that triggers the build once more instead of giving up
StepThrowsRetries(r, message) ==
    Issue([r EXCEPT !.stepError = message], "triggerDeployment")

\* deploy-client.ts:124-131  a step of deployClient threw `message`
StepThrows(r, message) ==
    HandleResult([r EXCEPT !.stepError = message],
                 FailureResult(r.cid, message))

\* trpc.ts:334-335  the catch block is entered with an error of `message`
Catch(r, message) == [r EXCEPT !.caught = message, !.pc = "catchUpdateClient"]

\* the handler returns `result` to the caller
Return(r, result) ==
    [r EXCEPT !.pc = "done",
              !.outcome = [kind |-> "return", result |-> result,
                           message |-> NULL]]

\* the handler throws an error of `message` to the caller
Throw(r, message) ==
    [r EXCEPT !.pc = "done",
              !.outcome = [kind |-> "throw", result |-> NoResult,
                           message |-> message]]

\* requests that have not yet taken their deployment id
Starting == {p \in Procs : proc[p].pc \in {"getClient", "getClientConfig"}}

\* fewer than `limit` requests have been accepted so far
Admits(limit) == nextId + Cardinality(Starting) <= limit

\* two clients as clients.create leaves them, one with a custom domain and
\* one without; nothing deployed yet, no request in progress
InitLedgerOf(ids) ==
    /\ clients = [c \in ids |->
                     NewClient(IF c = "c1" THEN "shop.example.com" ELSE "")]
    /\ deployments = <<>>
    /\ statusHist = <<>>
    /\ auditLog = <<>>
    /\ nextId = 1
    /\ remote = [projects |-> {}, nextProject |-> 1, owner |-> <<>>]
    /\ now = 1
    /\ dbFaults = 0
    /\ proc = [p \in Procs |-> IdleProc]
    /\ lendpro = [c \in ids |-> NewLendpro(<<117>>, StoredPassword(<<97>>))]

InitLedger == InitLedgerOf(ClientIds)

Init == InitLedger /\ poll = NoWait /\ pure = NoEval /\ OtherOff

\* trpc.ts:257-258  deploy(clientId) is called: getClient is awaited
DeployStart(p, c) ==
    /\ proc[p].pc = "idle"
    /\ proc' = [proc EXCEPT ![p] =
                    [IdleProc EXCEPT !.pc = "getClient", !.cid = c,
                                     !.conflict = InFlightRows(c) # {}]]
    /\ UNCHANGED <<auth, settings, migration, lendpro, pure, clients, deployments, statusHist, auditLog, nextId, remote,
                   now, dbFaults, poll>>

\* GetClient that goes on when no row was found
GetClientUnchecked(p) ==
    LET r == proc[p] IN
    /\ r.pc = "getClient"
    /\ proc' = [proc EXCEPT ![p] =
                    [r EXCEPT !.snap = IF r.cid \in DOMAIN clients
                                       THEN clients[r.cid]
                                       ELSE NewClient(NULL),
                              !.pc = "getClientConfig"]]
    /\ UNCHANGED <<auth, settings, migration, lendpro, pure, clients, deployments, statusHist, auditLog,
                   nextId, remote, now, dbFaults, poll>>

\* db.ts:115-116, trpc.ts:259-261  the client row is read; no row: not found
GetClient(p) ==
    LET r == proc[p] IN
    /\ r.pc = "getClient"
    /\ proc' = [proc EXCEPT ![p] =
                    IF r.cid \in DOMAIN clients
                    THEN [r EXCEPT !.snap = clients[r.cid],
                                   !.pc = "getClientConfig"]
                    ELSE Throw(r, NotFoundError(r.cid))]
    /\ UNCHANGED <<auth, settings, migration, lendpro, pure, clients, deployments, statusHist, auditLog, nextId, remote,
                   now, dbFaults, poll>>

\* db.ts:118-129, trpc.ts:264-265  the configuration rows are read, the
\* deployment id is taken and the insert is issued
GetClientConfig(p) ==
    LET r == proc[p] IN
    /\ r.pc = "getClientConfig"
    /\ proc' = [proc EXCEPT ![p] = [r EXCEPT !.did = nextId,
                                             !.pc = "createDeployment"]]
    /\ nextId' = nextId + 1
    /\ UNCHANGED <<auth, settings, migration, lendpro, pure, clients, deployments, statusHist, auditLog, remote, now,
                   dbFaults, poll>>

\* db.ts:221  the ledger row is inserted, pending; the foreign key rejects
\* the row of a client that no longer exists
CreateDeployment(p) ==
    LET r == proc[p] IN
    /\ r.pc = "createDeployment"
    /\ IF r.cid \in DOMAIN clients
       THEN /\ deployments' = deployments @@
                   (r.did :> NewDeployment(r.cid, DeploymentType(r.snap)))
            /\ statusHist' = statusHist @@ (r.did :> <<"pending">>)
            /\ proc' = [proc EXCEPT ![p] = [r EXCEPT !.pc = "createDeploymentSelect"]]
       ELSE /\ proc' = [proc EXCEPT ![p] = Throw(r, DbError)]
            /\ UNCHANGED <<deployments, statusHist>>
    /\ UNCHANGED <<auth, settings, migration, lendpro, pure, clients, auditLog, nextId, remote, now, dbFaults, poll>>

\* db.ts:222-223, trpc.ts:272-274  the row is read back; the try block
\* starts and issues the write of the client status
CreateDeploymentSelect(p) ==
    LET r == proc[p] IN
    /\ r.pc = "createDeploymentSelect"
    /\ proc' = [proc EXCEPT ![p] = [r EXCEPT !.pc = "updateClientDeploying"]]
    /\ UNCHANGED <<auth, settings, migration, lendpro, pure, clients, deployments, statusHist, auditLog, nextId, remote,
                   now, dbFaults, poll>>

\* trpc.ts:274-275  client status deploying; the write of the row is issued
UpdateClientDeploying(p) ==
    LET r == proc[p] IN
    /\ r.pc = "updateClientDeploying"
    /\ clients' = updateClient(clients, r.cid, [status |-> "deploying"])
    /\ proc' = [proc EXCEPT ![p] = [r EXCEPT !.wrote = "deploying",
                                             !.pc = "updateDeploymentBuilding"]]
    /\ UNCHANGED <<auth, settings, migration, lendpro, pure, deployments, statusHist, auditLog, nextId, remote, now,
                   dbFaults, poll>>

\* trpc.ts:275-298, deploy-client.ts:40-48  row status building; the
\* deployer is built and deployClient issues its first remote call
UpdateDeploymentBuilding(p) ==
    LET r == proc[p]
        upd == [status |-> "building"] IN
    /\ r.pc = "updateDeploymentBuilding"
    /\ deployments' = updateDeployment(deployments, r.did, upd)
    /\ statusHist' = histAfter(statusHist, deployments, r.did, upd)
    /\ proc' = [proc EXCEPT ![p] = Issue(r, "createProject")]
    /\ UNCHANGED <<auth, settings, migration, lendpro, pure, clients, auditLog, nextId, remote, now, dbFaults, poll>>

----------------------------------------------------------------------------
(* ClientDeployer.deployClient (scripts/deploy-client.ts:40-132).          *)

\* deploy-client.ts:115-123  every step is done: deployClient returns success
Finish(r) ==
    HandleResult([r EXCEPT !.provisioned = TRUE],
                 SuccessResult(r.cid, r.projectId, r.serviceUrl))

\* the remote operation a request is waiting for, when it waits for one
AwaitedCall(r) ==
    IF r.pc = "createMySQLService.variables" THEN "createMySQLService" ELSE r.pc

\* the locations at which a remote call is awaited whose failure aborts
AbortingCalls ==
    {"createProject", "createMySQLService", "createMySQLService.variables",
     "createService", "setEnvironmentVariables", "triggerDeployment",
     "getDeploymentStatus", "getServiceDomain"}

\* railway-api.ts:65-75, deploy-client.ts:124-131  the awaited remote call
\* throws; deployClient catches it and returns a failure result
RemoteCallFails(p) ==
    LET r == proc[p] IN
    /\ r.pc \in AbortingCalls
    /\ proc' = [proc EXCEPT ![p] =
                    StepThrows(Returned(r, AwaitedCall(r)),
                               RemoteError)]
    /\ UNCHANGED <<auth, settings, migration, lendpro, pure, clients, deployments, statusHist, auditLog, nextId, remote,
                   now, dbFaults, poll>>

\* deploy-client.ts:46-56, railway-api.ts:81-100  the project exists
CreateProject(p) ==
    LET r == proc[p]
        id == ProjectId(remote.nextProject) IN
    /\ r.pc = "createProject"
    /\ remote' = [projects |-> remote.projects \cup {id},
                  nextProject |-> remote.nextProject + 1,
                  owner |-> remote.owner @@ (id :> r.cid)]
    /\ proc' = [proc EXCEPT ![p] =
                    Issue([Returned(r, "createProject") EXCEPT !.projectId = id],
                          NextCall("createProject"))]
    /\ UNCHANGED <<auth, settings, migration, lendpro, pure, clients, deployments, statusHist, auditLog, nextId, now,
                   dbFaults, poll>>

\* railway-api.ts:149-158  the database service exists; its seed variables
\* are upserted before createMySQLService returns
CreateMySQLService(p) ==
    LET r == proc[p] IN
    /\ r.pc = "createMySQLService"
    /\ proc' = [proc EXCEPT ![p] = [r EXCEPT !.pc = "createMySQLService.variables"]]
    /\ UNCHANGED <<auth, settings, migration, lendpro, pure, clients, deployments, statusHist, auditLog, nextId, remote,
                   now, dbFaults, poll>>

\* railway-api.ts:155-163, deploy-client.ts:60  createMySQLService returns;
\* the settle delay is awaited
CreateMySQLServiceVariables(p) ==
    LET r == proc[p] IN
    /\ r.pc = "createMySQLService.variables"
    /\ proc' = [proc EXCEPT ![p] =
                    [Returned(r, "createMySQLService") EXCEPT !.pc = "sleep"]]
    /\ UNCHANGED <<auth, settings, migration, lendpro, pure, clients, deployments, statusHist, auditLog, nextId, remote,
                   now, dbFaults, poll>>

\* deploy-client.ts:60-71  the settle delay is over
Sleep(p) ==
    LET r == proc[p] IN
    /\ r.pc = "sleep"
    /\ proc' = [proc EXCEPT ![p] = Issue(r, NextCall("createMySQLService"))]
    /\ UNCHANGED <<auth, settings, migration, lendpro, pure, clients, deployments, statusHist, auditLog, nextId, remote,
                   now, dbFaults, poll>>

\* deploy-client.ts:64-81  the web service exists
CreateService(p) ==
    LET r == proc[p] IN
    /\ r.pc = "createService"
    /\ proc' = [proc EXCEPT ![p] =
                    Issue(Returned(r, "createService"), NextCall("createService"))]
    /\ UNCHANGED <<auth, settings, migration, lendpro, pure, clients, deployments, statusHist, auditLog, nextId, remote,
                   now, dbFaults, poll>>

\* deploy-client.ts:77-89  the variables are upserted
SetEnvironmentVariables(p) ==
    LET r == proc[p] IN
    /\ r.pc = "setEnvironmentVariables"
    /\ proc' = [proc EXCEPT ![p] =
                    Issue(Returned(r, "setEnvironmentVariables"),
                          NextCall("setEnvironmentVariables"))]
    /\ UNCHANGED <<auth, settings, migration, lendpro, pure, clients, deployments, statusHist, auditLog, nextId, remote,
                   now, dbFaults, poll>>

\* deploy-client.ts:86-97, 203-207  the build is triggered; waitForDeployment
\* takes startTime and enters its loop
TriggerDeployment(p) ==
    LET r == proc[p]
        q == Returned(r, "triggerDeployment") IN
    /\ r.pc = "triggerDeployment"
    /\ proc' = [proc EXCEPT ![p] =
                    IF LoopContinues(0, 0, DeployTimeout)
                    THEN Issue(q, NextCall("triggerDeployment"))
                    ELSE StepThrows(q, TimeoutError(DeployTimeout))]
    /\ UNCHANGED <<auth, settings, migration, lendpro, pure, clients, deployments, statusHist, auditLog, nextId, remote,
                   now, dbFaults, poll>>

\* deploy-client.ts:207-219, 99-100  a status is reported
GetDeploymentStatus(p, status) ==
    LET r == proc[p]
        q == Returned(r, "getDeploymentStatus") IN
    /\ r.pc = "getDeploymentStatus"
    /\ proc' = [proc EXCEPT ![p] =
                    IF IsSuccessStatus(status)
                    THEN Issue(q, NextCall("getDeploymentStatus"))
                    ELSE IF IsFailureStatus(status)
                    THEN StepThrows(q, FailedStatusError(status))
                    ELSE [q EXCEPT !.pc = "pollSleep"]]
    /\ UNCHANGED <<auth, settings, migration, lendpro, pure, clients, deployments, statusHist, auditLog, nextId, remote,
                   now, dbFaults, poll>>

\* the clock at the head of the loop, from startTime, after a sleep: a
\* poll interval has passed, or the whole timeout
ElapsedSamples == {pollInterval, DeployTimeout}

\* deploy-client.ts:219, 206-207, 222  the poll interval is over: the loop
\* polls again or waitForDeployment throws the timeout
PollSleep(p, elapsed) ==
    LET r == proc[p] IN
    /\ r.pc = "pollSleep"
    /\ proc' = [proc EXCEPT ![p] =
                    IF LoopContinues(elapsed, 0, DeployTimeout)
                    THEN Issue(r, "getDeploymentStatus")
                    ELSE StepThrows(r, TimeoutError(DeployTimeout))]
    /\ UNCHANGED <<auth, settings, migration, lendpro, pure, clients, deployments, statusHist, auditLog, nextId, remote,
                   now, dbFaults, poll>>

\* deploy-client.ts:100-107  the service domain is resolved; the custom
\* domain is added when the client has one
GetServiceDomain(p, serviceDomains) ==
    LET r == proc[p]
        q == [Returned(r, "getServiceDomain") EXCEPT
                 !.serviceUrl = getServiceDomain(serviceDomains)] IN
    /\ r.pc = "getServiceDomain"
    /\ proc' = [proc EXCEPT ![p] =
                    IF OrElse(r.snap.domain, "") # ""
                    THEN Issue(q, NextCall("getServiceDomain"))
                    ELSE Finish(q)]
    /\ UNCHANGED <<auth, settings, migration, lendpro, pure, clients, deployments, statusHist, auditLog, nextId, remote,
                   now, dbFaults, poll>>

\* AddCustomDomain whose failure fails the deployment
AddCustomDomainAborts(p, ok) ==
    LET r == proc[p]
        q == Returned(r, "addCustomDomain") IN
    /\ r.pc = "addCustomDomain"
    /\ proc' = [proc EXCEPT ![p] =
                    IF ok THEN Finish(q)
                    ELSE StepThrows([q EXCEPT !.domainFailed = TRUE],
                                    RemoteError)]
    /\ UNCHANGED <<auth, settings, migration, lendpro, pure, clients, deployments, statusHist, auditLog, nextId, remote,
                   now, dbFaults, poll>>

\* deploy-client.ts:106-123  addCustomDomain returns or throws: either way
\* deployClient returns success
AddCustomDomain(p, ok) ==
    LET r == proc[p] IN
    /\ r.pc = "addCustomDomain"
    /\ proc' = [proc EXCEPT ![p] =
                    Finish([Returned(r, "addCustomDomain") EXCEPT
                               !.domainFailed = ~ok])]
    /\ UNCHANGED <<auth, settings, migration, lendpro, pure, clients, deployments, statusHist, auditLog, nextId, remote,
                   now, dbFaults, poll>>

----------------------------------------------------------------------------
(* clients.deploy after deployClient has returned (server/trpc.ts:300-342) *)

\* trpc.ts:302-312  the client is active and holds the remote handles; the
\* write of the ledger row is issued with completedAt: new Date()
UpdateClientActive(p, t) ==
    LET r == proc[p] IN
    /\ r.pc = "updateClientActive"
    /\ clients' = updateClient(clients, r.cid, ActiveUpdate(r.result))
    /\ now' = t
    /\ proc' = [proc EXCEPT ![p] = [r EXCEPT !.wrote = "active",
                                             !.stamp = t,
                                             !.pc = "updateDeploymentSuccess"]]
    /\ UNCHANGED <<auth, settings, migration, lendpro, pure, deployments, statusHist, auditLog, nextId, remote,
                   dbFaults, poll>>

\* trpc.ts:310-316  the ledger row is success and completed
UpdateDeploymentSuccess(p) ==
    LET r == proc[p]
        upd == SuccessUpdate(r.stamp) IN
    /\ r.pc = "updateDeploymentSuccess"
    /\ deployments' = updateDeployment(deployments, r.did, upd)
    /\ statusHist' = histAfter(statusHist, deployments, r.did, upd)
    /\ proc' = [proc EXCEPT ![p] = [r EXCEPT !.pc = "logAdminAction"]]
    /\ UNCHANGED <<auth, settings, migration, lendpro, pure, clients, auditLog, nextId, remote, now, dbFaults, poll>>

\* trpc.ts:316-323  the audit entry is written; the result is returned
LogAdminAction(p) ==
    LET r == proc[p] IN
    /\ r.pc = "logAdminAction"
    /\ auditLog' = Append(auditLog, DeployAudit(r.did, r.result))
    /\ proc' = [proc EXCEPT ![p] = Return(r, r.result)]
    /\ UNCHANGED <<auth, settings, migration, lendpro, pure, clients, deployments, statusHist, nextId, remote, now,
                   dbFaults, poll>>

\* UpdateClientFailed that goes on to the ledger row without writing the
\* client status
UpdateClientFailedNoWrite(p, t) ==
    LET r == proc[p] IN
    /\ r.pc = "updateClientFailed"
    /\ now' = t
    /\ proc' = [proc EXCEPT ![p] = [r EXCEPT !.stamp = t,
                                             !.pc = "updateDeploymentFailed"]]
    /\ UNCHANGED <<auth, settings, migration, lendpro, pure, clients, deployments, statusHist, auditLog,
                   nextId, remote, dbFaults, poll>>

\* trpc.ts:325-326  the deployer reported a failure: the client is failed
UpdateClientFailed(p, t) ==
    LET r == proc[p] IN
    /\ r.pc = "updateClientFailed"
    /\ clients' = updateClient(clients, r.cid, [status |-> "failed"])
    /\ now' = t
    /\ proc' = [proc EXCEPT ![p] = [r EXCEPT !.wrote = "failed",
                                             !.stamp = t,
                                             !.pc = "updateDeploymentFailed"]]
    /\ UNCHANGED <<auth, settings, migration, lendpro, pure, deployments, statusHist, auditLog, nextId, remote,
                   dbFaults, poll>>

\* trpc.ts:326-335  the ledger row is failed; the handler throws the
\* deployer's error inside its own try block, so the catch block runs
UpdateDeploymentFailed(p) ==
    LET r == proc[p]
        upd == FailedUpdate(r.result.error, r.stamp) IN
    /\ r.pc = "updateDeploymentFailed"
    /\ deployments' = updateDeployment(deployments, r.did, upd)
    /\ statusHist' = histAfter(statusHist, deployments, r.did, upd)
    /\ proc' = [proc EXCEPT ![p] =
                    Catch(r, OrElse(r.result.error, "Deployment failed"))]
    /\ UNCHANGED <<auth, settings, migration, lendpro, pure, clients, auditLog, nextId, remote, now, dbFaults, poll>>

\* trpc.ts:335-336  catch block: the client is failed
CatchUpdateClient(p, t) ==
    LET r == proc[p] IN
    /\ r.pc = "catchUpdateClient"
    /\ clients' = updateClient(clients, r.cid, [status |-> "failed"])
    /\ now' = t
    /\ proc' = [proc EXCEPT ![p] = [r EXCEPT !.wrote = "failed",
                                             !.stamp = t,
                                             !.pc = "catchUpdateDeployment"]]
    /\ UNCHANGED <<auth, settings, migration, lendpro, pure, deployments, statusHist, auditLog, nextId, remote,
                   dbFaults, poll>>

\* trpc.ts:336-341  catch block: the ledger row is failed; the error is
\* thrown to the caller
CatchUpdateDeployment(p) ==
    LET r == proc[p]
        upd == FailedUpdate(r.caught, r.stamp) IN
    /\ r.pc = "catchUpdateDeployment"
    /\ deployments' = updateDeployment(deployments, r.did, upd)
    /\ statusHist' = histAfter(statusHist, deployments, r.did, upd)
    /\ proc' = [proc EXCEPT ![p] = Throw(r, r.caught)]
    /\ UNCHANGED <<auth, settings, migration, lendpro, pure, clients, auditLog, nextId, remote, now, dbFaults, poll>>

\* the awaits of the handler before its try block, inside it, and inside
\* its catch block, at which a statement of the ledger is in flight
DbBeforeTry ==
    {"getClient", "getClientConfig", "createDeployment", "createDeploymentSelect"}
DbInTry ==
    {"updateClientDeploying", "updateDeploymentBuilding", "updateClientActive",
     "updateDeploymentSuccess", "logAdminAction", "updateClientFailed",
     "updateDeploymentFailed"}
DbInCatch == {"catchUpdateClient", "catchUpdateDeployment"}

\* db.ts:38-54, trpc.ts:272, 334-341  the awaited statement of the ledger
\* throws and changes nothing: inside the try block the catch block takes
\* the error, anywhere else the caller gets it
DbFault(p) ==
    LET r == [proc[p] EXCEPT !.dbFault = TRUE] IN
    /\ r.pc \in DbBeforeTry \cup DbInTry \cup DbInCatch
    /\ dbFaults < MaxDbFaults
    /\ dbFaults' = dbFaults + 1
    /\ proc' = [proc EXCEPT ![p] =
                    IF r.pc \in DbInTry THEN Catch(r, DbError)
                    ELSE Throw(r, DbError)]
    /\ UNCHANGED <<auth, settings, migration, lendpro, pure, clients, deployments, statusHist, auditLog, nextId, remote,
                   now, poll>>

\* the caller has its answer and may call again
RequestDone(p) ==
    /\ proc[p].pc = "done"
    /\ proc' = [proc EXCEPT ![p] = IdleProc]
    /\ UNCHANGED <<auth, settings, migration, lendpro, pure, clients, deployments, statusHist, auditLog, nextId, remote,
                   now, dbFaults, poll>>

----------------------------------------------------------------------------
(* clients.delete (server/trpc.ts:464-495).                                *)

\* db.ts:210-214  DELETE FROM clients WHERE id = clientId
deleteClient(tbl, clientId) ==
    [c \in DOMAIN tbl \ {clientId} |-> tbl[c]]

\* schema: deployments.client_id references clients.id, on delete cascade
CascadeDelete(tbl, clientId) ==
    [d \in {e \in DOMAIN tbl : tbl[e].clientId # clientId} |-> tbl[d]]

\* trpc.ts:494  what clients.delete returns
DeleteResult == [success |-> TRUE]

\* trpc.ts:487-492  the audit entry of a delete
DeleteAudit(clientId) ==
    [action |-> "delete_client", resourceType |-> "client",
     resourceId |-> clientId, details |-> NULL]

\* trpc.ts:466-467  delete(clientId) is called: getClient is awaited
DeleteStart(p, c) ==
    /\ proc[p].pc = "idle"
    /\ proc' = [proc EXCEPT ![p] =
                    [IdleProc EXCEPT !.pc = "delete.getClient", !.cid = c]]
    /\ UNCHANGED <<auth, settings, migration, lendpro, pure, clients, deployments, statusHist, auditLog, nextId, remote,
                   now, dbFaults, poll>>

\* db.ts:115-116, trpc.ts:467-470  the client row is read; no row: not found
DeleteGetClient(p) ==
    LET r == proc[p] IN
    /\ r.pc = "delete.getClient"
    /\ proc' = [proc EXCEPT ![p] =
                    IF r.cid \in DOMAIN clients
                    THEN [r EXCEPT !.snap = clients[r.cid],
                                   !.pc = "delete.getClientConfig"]
                    ELSE Throw(r, "Client not found")]
    /\ UNCHANGED <<auth, settings, migration, lendpro, pure, clients, deployments, statusHist, auditLog, nextId, remote,
                   now, dbFaults, poll>>

\* db.ts:118-129, trpc.ts:473-477, 484  the configuration rows are read;
\* the remote project is deleted first when the client row names one,
\* otherwise the delete of the client row is issued
DeleteGetClientConfig(p) ==
    LET r == proc[p] IN
    /\ r.pc = "delete.getClientConfig"
    /\ proc' = [proc EXCEPT ![p] =
                    IF r.snap.railwayProjectId # NULL
                    THEN Issue(r, "deleteProject")
                    ELSE [r EXCEPT !.pc = "dbDeleteClient"]]
    /\ UNCHANGED <<auth, settings, migration, lendpro, pure, clients, deployments, statusHist, auditLog, nextId, remote,
                   now, dbFaults, poll>>

\* railway-api.ts:290-298  the remote platform after projectDelete(id)
WithoutProject(platform, projectId) ==
    [platform EXCEPT
        !.projects = @ \ {projectId},
        !.owner = [id \in DOMAIN @ \ {projectId} |-> @[id]]]

\* DeleteProject whose failure is thrown to the caller
DeleteProjectPropagates(p, ok) ==
    LET r == Returned(proc[p], "deleteProject") IN
    /\ proc[p].pc = "deleteProject"
    /\ remote' = IF ok
                 THEN WithoutProject(remote, r.snap.railwayProjectId)
                 ELSE remote
    /\ proc' = [proc EXCEPT ![p] =
                    IF ok THEN [r EXCEPT !.pc = "dbDeleteClient"]
                    ELSE Throw([r EXCEPT !.remoteFailed = TRUE], RemoteError)]
    /\ UNCHANGED <<auth, settings, migration, lendpro, pure, clients, deployments, statusHist, auditLog, nextId, now,
                   dbFaults, poll>>

\* deploy-client.ts:272-276, railway-api.ts:290-298, trpc.ts:474-484
\* deleteProject returns, or throws and the handler only logs the error;
\* either way the delete of the client row is issued
DeleteProject(p, ok) ==
    LET r == proc[p] IN
    /\ r.pc = "deleteProject"
    /\ remote' = IF ok
                 THEN WithoutProject(remote, r.snap.railwayProjectId)
                 ELSE remote
    /\ proc' = [proc EXCEPT ![p] =
                    [Returned(r, "deleteProject") EXCEPT
                        !.remoteFailed = ~ok, !.pc = "dbDeleteClient"]]
    /\ UNCHANGED <<auth, settings, migration, lendpro, pure, clients, deployments, statusHist, auditLog, nextId, now,
                   dbFaults, poll>>

\* db.ts:210-214, trpc.ts:484-487  the client row is deleted and the rows
\* that reference it with it; the audit entry is issued
DbDeleteClient(p) ==
    LET r == proc[p] IN
    /\ r.pc = "dbDeleteClient"
    /\ clients' = deleteClient(clients, r.cid)
    /\ deployments' = CascadeDelete(deployments, r.cid)
    /\ lendpro' = deleteClient(lendpro, r.cid)
    /\ proc' = [proc EXCEPT ![p] = [r EXCEPT !.wrote = "deleted",
                                             !.pc = "delete.logAdminAction"]]
    /\ UNCHANGED <<auth, settings, migration, pure, statusHist, auditLog, nextId, remote, now, dbFaults, poll>>

\* trpc.ts:487-494  the audit entry is written; success is returned
DeleteLogAdminAction(p) ==
    LET r == proc[p] IN
    /\ r.pc = "delete.logAdminAction"
    /\ auditLog' = Append(auditLog, DeleteAudit(r.cid))
    /\ proc' = [proc EXCEPT ![p] = Return(r, DeleteResult)]
    /\ UNCHANGED <<auth, settings, migration, lendpro, pure, clients, deployments, statusHist, nextId, remote, now,
                   dbFaults, poll>>

\* caller p calls clients.delete
CallDelete(p) == \E c \in ClientIds \cup {UnknownId} : DeleteStart(p, c)

\* a step of the delete request of caller p
ServeDelete(p) ==
    \/ DeleteGetClient(p)
    \/ DeleteGetClientConfig(p)
    \/ \E ok \in BOOLEAN : DeleteProject(p, ok)
    \/ DbDeleteClient(p)
    \/ DeleteLogAdminAction(p)

----------------------------------------------------------------------------
(* clients.create, clients.updateLendpro and clients.get                   *)
(* (server/trpc.ts:153-167, 172-250, 373-403).  A string is the sequence   *)
(* of its code units; an optional input that is absent is the empty one.   *)

\* the passwords and user names a caller may give
Passwords == {<<>>, <<112>>, <<113, 233>>}
Usernames == {<<>>, <<117>>}

\* the function f without the fields whose value is the empty string
Given(f) == [k \in {j \in DOMAIN f : f[j] # <<>>} |-> f[k]]

\* trpc.ts:212-217, 241-246  the client row and the audit entry of create
CreateAudit(clientId, domain) ==
    [action |-> "create_client", resourceType |-> "client",
     resourceId |-> clientId,
     details |-> [name |-> <<110>>, domain |-> domain]]

\* LendproUpdates that stores the password as it was given
LendproUpdatesPlain(username, password, salt, iv) ==
    Given([username |-> username, password |-> password])

\* trpc.ts:386-391  the columns updateLendpro writes: the other fields as
\* given, the password encrypted when one is given
LendproUpdates(username, password, salt, iv) ==
    Given([username |-> username,
           password |-> IF password # <<>>
                        THEN encryptPassword(password, EnvKey, salt, iv).value
                        ELSE <<>>])

\* trpc.ts:395-400  the audit entry of updateLendpro
UpdateLendproAudit(clientId, username, password) ==
    [action |-> "update_client_lendpro", resourceType |-> "client",
     resourceId |-> clientId,
     details |-> Given([username |-> username])
                     @@ [passwordUpdated |-> password # <<>>]]

\* trpc.ts:206-238  create is called: the password is encrypted, the id is
\* drawn and the insert of the client row is issued
CreateStart(p, c, password, salt, iv) ==
    /\ proc[p].pc = "idle"
    /\ c \notin DOMAIN clients
    /\ proc' = [proc EXCEPT ![p] =
                    [IdleProc EXCEPT
                        !.pc = "create.insertClient", !.cid = c,
                        !.updates =
                            NewLendpro(<<117>>,
                                encryptPassword(password, EnvKey, salt, iv).value)]]
    /\ UNCHANGED <<auth, settings, migration, clients, deployments, statusHist, auditLog, nextId, remote,
                   now, dbFaults, poll, lendpro, pure>>

\* db.ts:70-73  the client row is inserted, inactive
CreateInsertClient(p) ==
    LET r == proc[p] IN
    /\ r.pc = "create.insertClient"
    /\ clients' = clients @@ (r.cid :> NewClient(""))
    /\ proc' = [proc EXCEPT ![p] = [r EXCEPT !.pc = "create.insertLendpro"]]
    /\ UNCHANGED <<auth, settings, migration, deployments, statusHist, auditLog, nextId, remote, now,
                   dbFaults, poll, lendpro, pure>>

\* db.ts:73-100  the row of client_lendpro_config is inserted; the client
\* row is read back
CreateInsertLendpro(p) ==
    LET r == proc[p] IN
    /\ r.pc = "create.insertLendpro"
    /\ lendpro' = lendpro @@ (r.cid :> r.updates)
    /\ proc' = [proc EXCEPT ![p] = [r EXCEPT !.pc = "create.select"]]
    /\ UNCHANGED <<auth, settings, migration, clients, deployments, statusHist, auditLog, nextId, remote,
                   now, dbFaults, poll, pure>>

\* db.ts:101-103, trpc.ts:238-241  createClient returns; the audit entry is
\* issued
CreateSelect(p) ==
    LET r == proc[p] IN
    /\ r.pc = "create.select"
    /\ proc' = [proc EXCEPT ![p] = [r EXCEPT !.pc = "create.logAdminAction"]]
    /\ UNCHANGED <<auth, settings, migration, clients, deployments, statusHist, auditLog, nextId, remote,
                   now, dbFaults, poll, lendpro, pure>>

\* trpc.ts:241-249  the audit entry is written; the id is returned
CreateLogAdminAction(p) ==
    LET r == proc[p] IN
    /\ r.pc = "create.logAdminAction"
    /\ auditLog' = Append(auditLog, CreateAudit(r.cid, <<>>))
    /\ proc' = [proc EXCEPT ![p] =
                    Return(r, [success |-> TRUE, clientId |-> r.cid])]
    /\ UNCHANGED <<auth, settings, migration, clients, deployments, statusHist, nextId, remote, now,
                   dbFaults, poll, lendpro, pure>>

\* trpc.ts:385-393  updateLendpro is called: the columns to write are
\* built and the update is issued
UpdateLendproStart(p, c, username, password, salt, iv) ==
    /\ proc[p].pc = "idle"
    /\ proc' = [proc EXCEPT ![p] =
                    [IdleProc EXCEPT
                        !.pc = "updateClientLendpro", !.cid = c,
                        !.updates =
                            [columns |->
                                 LendproUpdates(username, password, salt, iv),
                             audit |->
                                 UpdateLendproAudit(c, username, password)]]]
    /\ UNCHANGED <<auth, settings, migration, clients, deployments, statusHist, auditLog, nextId, remote,
                   now, dbFaults, poll, lendpro, pure>>

\* db.ts:145-151, trpc.ts:393-395  UPDATE client_lendpro_config; the audit
\* entry is issued
UpdateClientLendpro(p) ==
    LET r == proc[p] IN
    /\ r.pc = "updateClientLendpro"
    /\ lendpro' = updateClient(lendpro, r.cid, r.updates.columns)
    /\ proc' = [proc EXCEPT ![p] =
                    [r EXCEPT !.pc = "updateLendpro.logAdminAction"]]
    /\ UNCHANGED <<auth, settings, migration, clients, deployments, statusHist, auditLog, nextId, remote,
                   now, dbFaults, poll, pure>>

\* trpc.ts:395-402  the audit entry is written; success is returned
UpdateLendproLogAdminAction(p) ==
    LET r == proc[p] IN
    /\ r.pc = "updateLendpro.logAdminAction"
    /\ auditLog' = Append(auditLog, r.updates.audit)
    /\ proc' = [proc EXCEPT ![p] = Return(r, [success |-> TRUE])]
    /\ UNCHANGED <<auth, settings, migration, clients, deployments, statusHist, nextId, remote, now,
                   dbFaults, poll, lendpro, pure>>

\* trpc.ts:155-156  get(id) is called: getClient is awaited
GetStart(p, c) ==
    /\ proc[p].pc = "idle"
    /\ proc' = [proc EXCEPT ![p] =
                    [IdleProc EXCEPT !.pc = "get.getClient", !.cid = c]]
    /\ UNCHANGED <<auth, settings, migration, clients, deployments, statusHist, auditLog, nextId, remote,
                   now, dbFaults, poll, lendpro, pure>>

\* db.ts:115-116, trpc.ts:157-159  the client row is read; no row: not found
GetGetClient(p) ==
    LET r == proc[p] IN
    /\ r.pc = "get.getClient"
    /\ proc' = [proc EXCEPT ![p] =
                    IF r.cid \in DOMAIN clients
                    THEN [r EXCEPT !.snap = clients[r.cid],
                                   !.pc = "get.getClientConfig"]
                    ELSE Throw(r, NotFoundError(r.cid))]
    /\ UNCHANGED <<auth, settings, migration, clients, deployments, statusHist, auditLog, nextId, remote,
                   now, dbFaults, poll, lendpro, pure>>

\* db.ts:118-129, trpc.ts:161-166  the configuration rows are read; the
\* password of the copy that is returned is decrypted
GetGetClientConfig(p) ==
    LET r == proc[p]
        decrypted == decryptPassword(lendpro[r.cid].password, EnvKey) IN
    /\ r.pc = "get.getClientConfig"
    /\ proc' = [proc EXCEPT ![p] =
                    IF r.cid \notin DOMAIN lendpro
                    THEN Return(r, [success |-> TRUE, client |-> r.snap])
                    ELSE IF decrypted.ok
                    THEN Return(r, [success |-> TRUE, client |-> r.snap,
                                    lendpro |->
                                        [lendpro[r.cid] EXCEPT
                                            !.password = decrypted.value]])
                    ELSE Throw(r, decrypted.error)]
    /\ UNCHANGED <<auth, settings, migration, clients, deployments, statusHist, auditLog, nextId, remote,
                   now, dbFaults, poll, lendpro, pure>>

\* caller p calls create, updateLendpro or get while fewer than `limit`
\* audit entries were written
CallSecret(p, limit) ==
    \/ /\ Len(auditLog) < limit
       /\ \E c \in ClientIds, password \in Passwords, nonce \in Nonces :
              CreateStart(p, c, password, nonce[1], nonce[2])
    \/ /\ Len(auditLog) < limit
       /\ \E c \in ClientIds, username \in Usernames, password \in Passwords,
             nonce \in Nonces :
              UpdateLendproStart(p, c, username, password, nonce[1], nonce[2])
    \/ \E c \in ClientIds \cup {UnknownId} : GetStart(p, c)

\* a step of the create, updateLendpro or get request of caller p
ServeSecret(p) ==
    \/ CreateInsertClient(p)
    \/ CreateInsertLendpro(p)
    \/ CreateSelect(p)
    \/ CreateLogAdminAction(p)
    \/ UpdateClientLendpro(p)
    \/ UpdateLendproLogAdminAction(p)
    \/ GetGetClient(p)
    \/ GetGetClientConfig(p)

----------------------------------------------------------------------------
(* The specifications.                                                     *)

\* caller p calls clients.deploy while fewer than `limit` calls were made
Call(p, limit) ==
    /\ Admits(limit)
    /\ \E c \in ClientIds \cup {UnknownId} : DeployStart(p, c)

\* a step of the request of caller p, the ledger never failing
Serve(p) ==
    \/ GetClient(p)
    \/ GetClientConfig(p)
    \/ CreateDeployment(p)
    \/ CreateDeploymentSelect(p)
    \/ UpdateClientDeploying(p)
    \/ UpdateDeploymentBuilding(p)
    \/ CreateProject(p)
    \/ CreateMySQLService(p)
    \/ CreateMySQLServiceVariables(p)
    \/ Sleep(p)
    \/ CreateService(p)
    \/ SetEnvironmentVariables(p)
    \/ TriggerDeployment(p)
    \/ \E status \in RemoteStatuses : GetDeploymentStatus(p, status)
    \/ \E elapsed \in ElapsedSamples : PollSleep(p, elapsed)
    \/ \E serviceDomains \in ServiceDomainLists :
           GetServiceDomain(p, serviceDomains)
    \/ \E ok \in BOOLEAN : AddCustomDomain(p, ok)
    \/ RemoteCallFails(p)
    \/ \E t \in ClockReadings : UpdateClientActive(p, t)
    \/ UpdateDeploymentSuccess(p)
    \/ LogAdminAction(p)
    \/ \E t \in ClockReadings : UpdateClientFailed(p, t)
    \/ UpdateDeploymentFailed(p)
    \/ \E t \in ClockReadings : CatchUpdateClient(p, t)
    \/ CatchUpdateDeployment(p)
    \/ RequestDone(p)

\* Requests of several callers interleave at their awaits.
Next == \E p \in Procs : Call(p, MaxDeployments) \/ Serve(p)

Spec == Init /\ [][Next]_vars

\* The requests of one caller, one after the other, with statements of the
\* ledger that throw.
NextFault == Call("p1", MaxRequests) \/ Serve("p1") \/ DbFault("p1")

SpecFault == Init /\ [][NextFault]_vars

\* One caller deploys while another deletes; their requests interleave at
\* their awaits.
NextAdmin ==
    \/ Call("p1", MaxRequests) \/ Serve("p1")
    \/ CallDelete("p2") \/ ServeDelete("p2") \/ RequestDone("p2")

SpecAdmin == Init /\ [][NextAdmin]_vars

\* One caller creates clients, updates and reads their credentials, deploys
\* and deletes them, one request after the other.
InitSecret ==
    InitLedgerOf({"c1"}) /\ poll = NoWait /\ pure = NoEval /\ OtherOff

NextSecret ==
    \/ CallSecret("p1", MaxAudit) \/ ServeSecret("p1")
    \/ Call("p1", MaxRequests) \/ Serve("p1")
    \/ (Len(auditLog) < MaxAudit /\ CallDelete("p1")) \/ ServeDelete("p1")

SpecSecret == InitSecret /\ [][NextSecret]_vars

----------------------------------------------------------------------------
(* ClientDeployer.buildEnvironmentVariables (scripts/deploy-client.ts:     *)
(* 137-194).  An optional part of the config is a sequence of no or one    *)
(* value; a string that is absent is tested like the empty one.            *)

\* an entry of the list: { key, value }
EnvironmentVariable(key, value) == [key |-> key, value |-> value]

\* the entry when the value is truthy, nothing otherwise: if (x) vars.push
PushIf(key, value) ==
    IF value # "" THEN <<EnvironmentVariable(key, value)>> ELSE <<>>

\* deploy-client.ts:141-158  the entries of every client
BaseVariables(config, mysqlServiceId) ==
    <<EnvironmentVariable("NODE_ENV", "production"),
      EnvironmentVariable("PORT", "3000"),
      EnvironmentVariable("LENDPRO_API_URL", config.lendpro.apiUrl),
      EnvironmentVariable("LENDPRO_USERNAME", config.lendpro.username),
      EnvironmentVariable("LENDPRO_PASSWORD", config.lendpro.password),
      EnvironmentVariable("LENDPRO_STORE_ID", config.lendpro.storeId),
      EnvironmentVariable("LENDPRO_SALES_ID", config.lendpro.salesId),
      EnvironmentVariable("LENDPRO_SALES_NAME", config.lendpro.salesName),
      EnvironmentVariable("DATABASE_URL",
                          "${{" \o mysqlServiceId \o ".MYSQL_URL}}"),
      EnvironmentVariable("OAUTH_SERVER_URL", "http://localhost:3000")>>

\* deploy-client.ts:160-169  the visualizer entries
VisualizerVariables(config) ==
    IF config.visualizer = <<>> THEN <<>>
    ELSE LET visualizer == config.visualizer[1] IN
         <<EnvironmentVariable("VISUALIZER_ENABLED",
               IF visualizer.enabled THEN "true" ELSE "false")>>
         \o PushIf("VISUALIZER_EMBED_CODE", visualizer.embedCode)
         \o PushIf("AUTOSYNC_API_KEY", visualizer.autoSyncApiKey)

\* deploy-client.ts:171-174  config.features?.cartOnly
CartOnlyVariables(config) ==
    IF config.features # <<>> /\ config.features[1].cartOnly
    THEN <<EnvironmentVariable("CART_ONLY_MODE", "true")>>
    ELSE <<>>

\* the branding entries, each one pushed whatever its value
BrandingVariablesUnconditional(config) ==
    IF config.branding = <<>> THEN <<>>
    ELSE LET branding == config.branding[1] IN
         <<EnvironmentVariable("VITE_PRIMARY_COLOR", branding.primaryColor),
           EnvironmentVariable("VITE_SECONDARY_COLOR",
                               branding.secondaryColor),
           EnvironmentVariable("VITE_COMPANY_NAME", branding.companyName),
           EnvironmentVariable("VITE_LOGO_URL", branding.logoUrl)>>

\* deploy-client.ts:176-190  the branding entries
BrandingVariables(config) ==
    IF config.branding = <<>> THEN <<>>
    ELSE LET branding == config.branding[1] IN
         PushIf("VITE_PRIMARY_COLOR", branding.primaryColor)
         \o PushIf("VITE_SECONDARY_COLOR", branding.secondaryColor)
         \o PushIf("VITE_COMPANY_NAME", branding.companyName)
         \o PushIf("VITE_LOGO_URL", branding.logoUrl)

\* deploy-client.ts:137-194
buildEnvironmentVariables(config, mysqlServiceId) ==
    BaseVariables(config, mysqlServiceId)
    \o VisualizerVariables(config)
    \o CartOnlyVariables(config)
    \o BrandingVariables(config)

\* the configs the function is applied to: every combination of the parts
\* its branches test
Optional(S) == {<<>>} \cup {<<x>> : x \in S}

LendproConfigs ==
    [apiUrl : {"https://api.lendpro.example"}, username : {"user"},
     password : {"", "secret"}, storeId : {"store"}, salesId : {"sales"},
     salesName : {"name"}]

VisualizerConfigs ==
    [enabled : BOOLEAN, embedCode : {"", "<embed>"},
     autoSyncApiKey : {"", "key"}]

FeaturesConfigs == [cartOnly : BOOLEAN]

BrandingConfigs ==
    [primaryColor : {"", "#111111"}, secondaryColor : {"", "#222222"},
     companyName : {"", "Shop"}, logoUrl : {"", "https://logo.example"}]

ClientConfigs ==
    [lendpro : LendproConfigs, visualizer : Optional(VisualizerConfigs),
     features : Optional(FeaturesConfigs),
     branding : Optional(BrandingConfigs)]

\* deploy-client.ts:76, 238  the service ids the function is called with
MysqlServiceIds == {"mysql", "svc-1"}

\* buildEnvironmentVariables applied to one config.
InitEnv ==
    /\ InitLedger
    /\ OtherOff
    /\ poll = NoWait
    /\ \E config \in ClientConfigs, mysqlServiceId \in MysqlServiceIds :
           pure = [pc |-> "buildEnvironmentVariables", config |-> config,
                   mysqlServiceId |-> mysqlServiceId, vars |-> <<>>]

\* deploy-client.ts:137-194  the function returns its list
BuildEnvironmentVariables ==
    /\ pure.pc = "buildEnvironmentVariables"
    /\ pure' = [pure EXCEPT
                   !.pc = "returned",
                   !.vars = buildEnvironmentVariables(pure.config,
                                                      pure.mysqlServiceId)]
    /\ UNCHANGED <<auth, settings, migration, clients, deployments, statusHist, auditLog, nextId,
                   remote, now, dbFaults, proc, poll, lendpro>>

NextEnv == BuildEnvironmentVariables

SpecEnv == InitEnv /\ [][NextEnv]_vars

----------------------------------------------------------------------------
(* The procedures of the router (server/trpc.ts:47-98, 134) and the routes *)
(* of appRouter (139-556).  ctx.user is the role of the user that          *)
(* createContext found, or "none".                                          *)

\* trpc.ts:47, 134  t.procedure: no middleware
publicProcedure(ctx) == "next"

\* trpc.ts:52-66
protectedProcedure(ctx) ==
    IF ctx.user = "none" THEN "UNAUTHORIZED" ELSE "next"

\* trpc.ts:71-82
adminProcedure(ctx) ==
    IF protectedProcedure(ctx) # "next" THEN protectedProcedure(ctx)
    ELSE IF ctx.user = "viewer" THEN "FORBIDDEN" ELSE "next"

\* trpc.ts:87-98
superAdminProcedure(ctx) ==
    IF protectedProcedure(ctx) # "next" THEN protectedProcedure(ctx)
    ELSE IF ctx.user # "super_admin" THEN "FORBIDDEN" ELSE "next"

\* the middleware of the procedure applied to the context
Middleware(procedure, ctx) ==
    CASE procedure = "publicProcedure" -> publicProcedure(ctx)
      [] procedure = "protectedProcedure" -> protectedProcedure(ctx)
      [] procedure = "adminProcedure" -> adminProcedure(ctx)
      [] procedure = "superAdminProcedure" -> superAdminProcedure(ctx)

\* trpc.ts:139-556  the procedure each route of appRouter is built on
appRouter ==
    [r \in {"clients.list", "clients.get", "clients.create",
            "clients.deploy", "clients.update", "clients.updateLendpro",
            "clients.updateBranding", "clients.updateFeatures",
            "clients.delete", "deployments.history", "analytics.client",
            "analytics.aggregate", "audit.logs"} |-> "publicProcedure"]

\* trpc.ts:19-36  what createContext gives: no token, a token that
\* getCurrentUser rejects, or the user of the token
Contexts ==
    {[user |-> "none", token |-> FALSE], [user |-> "none", token |-> TRUE],
     [user |-> "viewer", token |-> TRUE], [user |-> "admin", token |-> TRUE],
     [user |-> "super_admin", token |-> TRUE]}

\* One request to one route of the router.
InitRoute ==
    /\ InitLedger
    /\ OtherOff
    /\ poll = NoWait
    /\ \E route \in DOMAIN appRouter, ctx \in Contexts :
           pure = [pc |-> "request", route |-> route, ctx |-> ctx,
                   error |-> NULL]

\* the middleware of the route's procedure runs: the handler is entered or
\* the request is rejected with the code of the TRPCError
RunProcedure ==
    LET outcome == Middleware(appRouter[pure.route], pure.ctx) IN
    /\ pure.pc = "request"
    /\ pure' = [pure EXCEPT
                   !.pc = IF outcome = "next" THEN "handler" ELSE "rejected",
                   !.error = IF outcome = "next" THEN NULL ELSE outcome]
    /\ UNCHANGED <<auth, settings, migration, clients, deployments, statusHist, auditLog, nextId, remote,
                   now, dbFaults, proc, poll, lendpro>>

NextRoute == RunProcedure

SpecRoute == InitRoute /\ [][NextRoute]_vars

----------------------------------------------------------------------------
(* Sessions (server/auth.ts).  The clock counts seconds, the resolution of *)
(* the iat and exp claims of a token.  A token is the record of what was   *)
(* signed: tokens with equal claims are the same string.                   *)

\* auth.ts:11  JWT_EXPIRY = "7d", in seconds
JWT_EXPIRY == 604800

\* auth.ts:198-199  expiresAt.setDate(expiresAt.getDate() + 7), in seconds
SessionLifetime == 7 * 86400

\* how many sessions are created and how often the clock is moved
MaxLogins == 2
MaxTicks == 2

\* the admin users: one registered, and an email nobody registered
AdminUsers == {"u1"}
UnknownEmail == "u0"

\* auth.ts:53-61  generateToken(userId) at clock reading t: HS256 over the
\* claims userId, iat and exp with the server's secret
generateToken(userId, t) ==
    [userId |-> userId, iat |-> t, exp |-> t + JWT_EXPIRY, signed |-> TRUE]

\* a token that was not signed with the server's secret
ForgedToken == [userId |-> "u1", iat |-> 0, exp |-> JWT_EXPIRY, signed |-> FALSE]

\* auth.ts:66-74  verifyToken: jwtVerify checks the signature and exp
verifyToken(token, t) == token.signed /\ token.exp > t

\* no call of auth.ts is in progress
NoCall ==
    [pc |-> "idle", op |-> NULL, email |-> NULL, passwordValid |-> FALSE,
     token |-> ForgedToken, session |-> 0, result |-> NULL,
     afterLogout |-> FALSE, afterExpiry |-> FALSE]

\* the session rows of the token
SessionsOf(token) == {s \in auth.sessions : s.token = token}

\* auth.ts:261-271  the rows the select of getCurrentUser matches at t
ValidSessions(token, t) == {s \in SessionsOf(token) : s.expiresAt > t}

\* the tokens a caller may present: every token that was issued, and a
\* forged one
KnownTokens == auth.issued \cup {ForgedToken}

InitAuth ==
    /\ InitLedger
    /\ poll = NoWait
    /\ pure = NoEval
    /\ settings = NoSettings
    /\ migration = NoMigration
    /\ auth = [clock |-> 0, ticks |-> 0,
               active |-> [u \in AdminUsers |-> TRUE],
               sessions |-> {}, nextSession |-> 1,
               issued |-> {}, loggedOut |-> {}, expired |-> {},
               call |-> NoCall]

AuthFrame ==
    UNCHANGED <<clients, deployments, statusHist, auditLog, nextId, remote,
                now, dbFaults, proc, poll, lendpro, pure, settings,
                migration>>

\* the call in progress moves on to `call`
AuthStep(call) == auth' = [auth EXCEPT !.call = call] /\ AuthFrame

\* the call answers `result`
Answer(result) == [auth.call EXCEPT !.pc = "done", !.result = result]

\* auth.ts:161  login(data) is called
LoginStart(email, passwordValid) ==
    /\ auth.call.pc = "idle"
    /\ auth.nextSession <= MaxLogins
    /\ AuthStep([NoCall EXCEPT !.pc = "login.select", !.op = "login",
                               !.email = email,
                               !.passwordValid = passwordValid])

\* auth.ts:166-185  the user row is read: unknown email, deactivated
\* account, or the password is compared
LoginSelect ==
    /\ auth.call.pc = "login.select"
    /\ AuthStep(IF auth.call.email \notin AdminUsers
                THEN Answer("Invalid email or password")
                ELSE IF ~auth.active[auth.call.email]
                THEN Answer("Account is deactivated")
                ELSE [auth.call EXCEPT !.pc = "login.verify"])

\* auth.ts:188-197  verifyPassword has answered; the token is generated
LoginVerify ==
    /\ auth.call.pc = "login.verify"
    /\ AuthStep(IF ~auth.call.passwordValid
                THEN Answer("Invalid email or password")
                ELSE [auth.call EXCEPT
                         !.token = generateToken(auth.call.email, auth.clock),
                         !.pc = "login.insert"])

\* auth.ts:200-209  the session row is inserted, expiring in seven days
LoginInsert ==
    /\ auth.call.pc = "login.insert"
    /\ auth' = [auth EXCEPT
                   !.sessions = @ \cup
                       {[id |-> auth.nextSession,
                         userId |-> auth.call.email,
                         token |-> auth.call.token,
                         expiresAt |-> auth.clock + SessionLifetime]},
                   !.nextSession = @ + 1,
                   !.issued = @ \cup {auth.call.token},
                   !.call = [auth.call EXCEPT !.pc = "login.update"]]
    /\ AuthFrame

\* auth.ts:212-224  lastSignedIn is written; login returns the token
LoginUpdate ==
    /\ auth.call.pc = "login.update"
    /\ AuthStep(Answer("success"))

\* auth.ts:237  logout(token) is called
LogoutStart(token) ==
    /\ auth.call.pc = "idle"
    /\ AuthStep([NoCall EXCEPT !.pc = "logout.delete", !.op = "logout",
                               !.token = token])

\* auth.ts:238-245  the rows of the token are deleted and logout returns
\* true, or the statement throws and logout returns false
LogoutDelete(ok) ==
    /\ auth.call.pc = "logout.delete"
    /\ auth' = [auth EXCEPT
                   !.sessions = IF ok THEN @ \ SessionsOf(auth.call.token)
                                ELSE @,
                   !.loggedOut = IF ok THEN @ \cup {auth.call.token} ELSE @,
                   !.call = Answer(IF ok THEN "true" ELSE "false")]
    /\ AuthFrame

\* auth.ts:251  getCurrentUser(token) is called
GetCurrentUserStart(token) ==
    /\ auth.call.pc = "idle"
    /\ AuthStep([NoCall EXCEPT
                    !.pc = "getCurrentUser.verify", !.op = "getCurrentUser",
                    !.token = token,
                    !.afterLogout = token \in auth.loggedOut,
                    !.afterExpiry = token \in auth.expired])

\* auth.ts:256-259  verifyToken
GetCurrentUserVerify ==
    /\ auth.call.pc = "getCurrentUser.verify"
    /\ AuthStep(IF verifyToken(auth.call.token, auth.clock)
                THEN [auth.call EXCEPT !.pc = "getCurrentUser.session"]
                ELSE Answer(NULL))

\* auth.ts:261-275  a session row with the token that has not expired
GetCurrentUserSession ==
    /\ auth.call.pc = "getCurrentUser.session"
    /\ IF ValidSessions(auth.call.token, auth.clock) = {}
       THEN AuthStep(Answer(NULL))
       ELSE \E s \in ValidSessions(auth.call.token, auth.clock) :
                AuthStep([auth.call EXCEPT !.session = s.id,
                                           !.email = s.userId,
                                           !.pc = "getCurrentUser.user"])

\* auth.ts:279-297  the user row of the session; null when deactivated
GetCurrentUserUser ==
    /\ auth.call.pc = "getCurrentUser.user"
    /\ AuthStep(IF auth.active[auth.call.email]
                THEN [auth.call EXCEPT !.pc = "getCurrentUser.update"]
                ELSE Answer(NULL))

\* auth.ts:300-305  lastActivityAt is written; the user is returned
GetCurrentUserUpdate ==
    /\ auth.call.pc = "getCurrentUser.update"
    /\ AuthStep(Answer(auth.call.email))

\* the caller has its answer and may call again
CallDone ==
    /\ auth.call.pc = "done"
    /\ AuthStep(NoCall)

\* time passes: a second, or the lifetime of a session
Tick(seconds) ==
    /\ auth.ticks < MaxTicks
    /\ auth' = [auth EXCEPT
                   !.clock = @ + seconds,
                   !.ticks = @ + 1,
                   !.expired = @ \cup
                       {s.token : s \in {x \in auth.sessions :
                                    x.expiresAt <= auth.clock + seconds}}]
    /\ AuthFrame

\* the account is deactivated
Deactivate(user) ==
    /\ auth.active[user]
    /\ auth' = [auth EXCEPT !.active[user] = FALSE]
    /\ AuthFrame

NextAuth ==
    \/ \E email \in AdminUsers \cup {UnknownEmail}, valid \in BOOLEAN :
           LoginStart(email, valid)
    \/ LoginSelect \/ LoginVerify \/ LoginInsert \/ LoginUpdate
    \/ \E token \in KnownTokens : LogoutStart(token)
    \/ \E ok \in BOOLEAN : LogoutDelete(ok)
    \/ \E token \in KnownTokens : GetCurrentUserStart(token)
    \/ GetCurrentUserVerify \/ GetCurrentUserSession
    \/ GetCurrentUserUser \/ GetCurrentUserUpdate
    \/ CallDone
    \/ \E seconds \in {1, SessionLifetime} : Tick(seconds)
    \/ \E user \in AdminUsers : Deactivate(user)

SpecAuth == InitAuth /\ [][NextAuth]_vars

----------------------------------------------------------------------------
(* The optional settings of a client (database/db.ts): a branding, a       *)
(* features and a visualizer table, each written by a select followed by   *)
(* an update or an insert.                                                 *)

\* part_000:312-366  the three tables; none has a unique key on client_id
SettingsTables == {"client_branding", "client_features", "client_visualizer"}

\* the callers of the update functions, and the values they write
SettingsCallers == {"s1", "s2"}
SettingsValues == {"a", "b"}

\* the clients: the first was created without optional settings, the second
\* with all of them (db.ts:77-99)
BareClient == "c1"
FullClient == "c2"

\* the rows of the client in the table
SettingsRows(tbl, clientId) ==
    {row \in settings.rows[tbl] : row.clientId = clientId}

\* db.ts:160  const [existing] = select ... where clientId: whether a row
\* came back
Existing(tbl, clientId) == SettingsRows(tbl, clientId) # {}

\* db.ts:163  update(table).set(updates).where(clientId)
UpdateRows(rows, clientId, updates) ==
    {IF row.clientId = clientId THEN [row EXCEPT !.value = updates] ELSE row :
         row \in rows}

\* db.ts:165-168  insert(table).values({...updates, clientId}), the id from
\* the table's auto-increment
InsertRow(rows, id, clientId, updates) ==
    rows \cup {[id |-> id, clientId |-> clientId, value |-> updates]}

\* no call in progress
NoUpdate ==
    [pc |-> "idle", tbl |-> NULL, clientId |-> NULL, updates |-> NULL,
     existing |-> FALSE]

InitSettings ==
    /\ InitLedger
    /\ poll = NoWait
    /\ pure = NoEval
    /\ auth = NoAuth
    /\ migration = NoMigration
    /\ settings =
           [rows |-> [tbl \in SettingsTables |->
                         {[id |-> 1, clientId |-> FullClient, value |-> "a"]}],
            nextRow |-> [tbl \in SettingsTables |-> 2],
            call |-> [p \in SettingsCallers |-> NoUpdate]]

SettingsFrame ==
    UNCHANGED <<clients, deployments, statusHist, auditLog, nextId, remote,
                now, dbFaults, proc, poll, lendpro, pure, auth, migration>>

\* db.ts:153-158, 172-177, 191-196  updateClientBranding, updateClientFeatures
\* or updateClientVisualizer is called
UpdateSettingsStart(p, tbl, clientId, updates) ==
    /\ settings.call[p].pc = "idle"
    /\ settings' = [settings EXCEPT
                       !.call[p] = [pc |-> "select", tbl |-> tbl,
                                    clientId |-> clientId,
                                    updates |-> updates,
                                    existing |-> FALSE]]
    /\ SettingsFrame

\* db.ts:160, 179, 198  the select has answered
UpdateSettingsSelect(p) ==
    LET call == settings.call[p]
    IN  /\ call.pc = "select"
        /\ settings' = [settings EXCEPT
                           !.call[p].existing =
                               Existing(call.tbl, call.clientId),
                           !.call[p].pc = "write"]
        /\ SettingsFrame

\* db.ts:162-169, 181-188, 200-207  the update or the insert has answered
\* and the function returns
UpdateSettingsWrite(p) ==
    LET call == settings.call[p]
    IN  /\ call.pc = "write"
        /\ settings' =
               IF call.existing
               THEN [settings EXCEPT
                        !.rows[call.tbl] =
                            UpdateRows(@, call.clientId, call.updates),
                        !.call[p] = NoUpdate]
               ELSE [settings EXCEPT
                        !.rows[call.tbl] =
                            InsertRow(@, settings.nextRow[call.tbl],
                                      call.clientId, call.updates),
                        !.nextRow[call.tbl] = @ + 1,
                        !.call[p] = NoUpdate]
        /\ SettingsFrame

NextSettings ==
    \/ \E p \in SettingsCallers, tbl \in SettingsTables,
          clientId \in {BareClient, FullClient}, updates \in SettingsValues :
           UpdateSettingsStart(p, tbl, clientId, updates)
    \/ \E p \in SettingsCallers : UpdateSettingsSelect(p)
    \/ \E p \in SettingsCallers : UpdateSettingsWrite(p)

SpecSettings == InitSettings /\ [][NextSettings]_vars

----------------------------------------------------------------------------
(* The guarded migration of the admin_users table (migrate.ts of the       *)
(* server, the version with the migrationRunning and migrationComplete     *)
(* flags).  All calls run in one process: the code between two awaits is   *)
(* one step.                                                               *)

\* part_005:55-68  tablesToDrop, in the order of the loop
tablesToDrop ==
    <<"sessions", "notifications", "notification_settings", "audit_log",
      "deployments", "client_analytics", "client_visualizer",
      "client_features", "client_branding", "client_lendpro_config",
      "clients", "admin_users">>

\* the calls that may be in progress at once, and how many statements fail
MigrationCallers == {"m1", "m2"}
MaxMigrationFaults == 2

\* the databases the process may start with: none of the tables, the
\* tables with the old admin_users, or the tables with the new one
Databases ==
    {[tables |-> {}, passwordHash |-> FALSE],
     [tables |-> {tablesToDrop[i] : i \in 1 .. Len(tablesToDrop)},
      passwordHash |-> FALSE],
     [tables |-> {tablesToDrop[i] : i \in 1 .. Len(tablesToDrop)},
      passwordHash |-> TRUE]}

\* a call that is not in progress
NoMigrationCall == [pc |-> "idle", i |-> 0, result |-> NULL]

InitMigration ==
    /\ InitLedger
    /\ poll = NoWait
    /\ pure = NoEval
    /\ auth = NoAuth
    /\ settings = NoSettings
    /\ \E db \in Databases :
           migration = [migrationRunning |-> FALSE,
                        migrationComplete |-> FALSE,
                        tables |-> db.tables,
                        passwordHash |-> db.passwordHash,
                        foreignKeyChecks |-> TRUE,
                        faults |-> 0,
                        call |-> [p \in MigrationCallers |-> NoMigrationCall],
                        completed |-> FALSE,
                        failed |-> FALSE,
                        skipped |-> FALSE]

MigrationFrame ==
    UNCHANGED <<clients, deployments, statusHist, auditLog, nextId, remote,
                now, dbFaults, proc, poll, lendpro, pure, auth, settings>>

\* the fault count after a step whose statement fails when ~ok
FaultsAfter(ok) == migration.faults + (IF ok THEN 0 ELSE 1)

\* a guard that does not look at migrationRunning
MigrationGuardNoRunning ==
    IF migration.migrationComplete THEN "already completed" ELSE NULL

\* part_005:12-21  the guard of migrateAdminUsersTable: the answer of a call
\* that is skipped, NULL for a call that goes on
MigrationGuard ==
    IF migration.migrationRunning THEN "already running"
    ELSE IF migration.migrationComplete THEN "already completed"
    ELSE NULL

\* part_005:11-27  a call: it returns true at once when the guard skips it,
\* and sets migrationRunning otherwise
MigrationStart(p) ==
    /\ migration.call[p].pc = "idle"
    /\ migration' =
           IF MigrationGuard # NULL
           THEN [migration EXCEPT
                    !.call[p] = [pc |-> "done", i |-> 0,
                                 result |-> MigrationGuard],
                    !.skipped = TRUE]
           ELSE [migration EXCEPT
                    !.migrationRunning = TRUE,
                    !.call[p] = [pc |-> "getAdminDb", i |-> 0,
                                 result |-> NULL]]
    /\ MigrationFrame

\* part_005:142-144  the catch of the outer try: migrationRunning is cleared
MigrationCatch(p, m) ==
    [m EXCEPT !.migrationRunning = FALSE,
              !.faults = @ + 1,
              !.failed = TRUE,
              !.call[p].pc = "cleanup"]

\* one awaited statement of the outer try: it throws into the catch, or the
\* call goes on as in `after`
MigrationStep(p, ok, after) ==
    /\ ok \/ migration.faults < MaxMigrationFaults
    /\ migration' = IF ok THEN after ELSE MigrationCatch(p, migration)
    /\ MigrationFrame

\* part_005:27  getAdminDb
MigrationGetAdminDb(p, ok) ==
    /\ migration.call[p].pc = "getAdminDb"
    /\ MigrationStep(p, ok,
                  [migration EXCEPT !.call[p].pc = "columns"])

\* part_005:30-47  the query for the password_hash column: the call ends
\* when the column is there; a failing query is swallowed
MigrationColumns(p, ok) ==
    /\ migration.call[p].pc = "columns"
    /\ ok \/ migration.faults < MaxMigrationFaults
    /\ migration' =
           IF ok /\ migration.passwordHash
           THEN [migration EXCEPT
                    !.migrationComplete = TRUE,
                    !.migrationRunning = FALSE,
                    !.completed = TRUE,
                    !.call[p] = [pc |-> "done", i |-> 0,
                                 result |-> "correct schema"]]
           ELSE [migration EXCEPT !.faults = FaultsAfter(ok),
                                  !.call[p].pc = "disable"]
    /\ MigrationFrame

\* part_005:50-51  SET FOREIGN_KEY_CHECKS = 0
MigrationDisable(p, ok) ==
    /\ migration.call[p].pc = "disable"
    /\ MigrationStep(p, ok,
                  [migration EXCEPT !.foreignKeyChecks = FALSE,
                                    !.call[p].pc = "drop",
                                    !.call[p].i = 1])

\* part_005:70-77  one turn of the loop: DROP TABLE IF EXISTS; a failing
\* drop is swallowed
MigrationDrop(p, ok) ==
    LET i == migration.call[p].i
        last == i = Len(tablesToDrop)
    IN  /\ migration.call[p].pc = "drop"
        /\ ok \/ migration.faults < MaxMigrationFaults
        /\ migration' =
               [migration EXCEPT
                   !.tables = IF ok THEN @ \ {tablesToDrop[i]} ELSE @,
                   !.passwordHash =
                       IF ok /\ tablesToDrop[i] = "admin_users" THEN FALSE
                       ELSE @,
                   !.faults = FaultsAfter(ok),
                   !.call[p].i = IF last THEN 0 ELSE i + 1,
                   !.call[p].pc = IF last THEN "sleep" ELSE "drop"]
        /\ MigrationFrame

\* part_005:80  the wait of one second
MigrationSleep(p) ==
    /\ migration.call[p].pc = "sleep"
    /\ migration' = [migration EXCEPT !.call[p].pc = "create admin_users"]
    /\ MigrationFrame

\* part_005:84-100  CREATE TABLE IF NOT EXISTS admin_users, with the
\* password_hash column
MigrationCreateAdminUsers(p, ok) ==
    /\ migration.call[p].pc = "create admin_users"
    /\ MigrationStep(p, ok,
                  [migration EXCEPT
                      !.passwordHash =
                          IF "admin_users" \in migration.tables THEN @
                          ELSE TRUE,
                      !.tables = @ \cup {"admin_users"},
                      !.call[p].pc = "create sessions"])

\* part_005:104-116  CREATE TABLE IF NOT EXISTS sessions
MigrationCreateSessions(p, ok) ==
    /\ migration.call[p].pc = "create sessions"
    /\ MigrationStep(p, ok,
                  [migration EXCEPT !.tables = @ \cup {"sessions"},
                                    !.call[p].pc = "create audit_log"])

\* part_005:120-132  CREATE TABLE IF NOT EXISTS audit_log
MigrationCreateAuditLog(p, ok) ==
    /\ migration.call[p].pc = "create audit_log"
    /\ MigrationStep(p, ok,
                  [migration EXCEPT !.tables = @ \cup {"audit_log"},
                                    !.call[p].pc = "enable"])

\* part_005:135-141  SET FOREIGN_KEY_CHECKS = 1; the call has completed
MigrationEnable(p, ok) ==
    /\ migration.call[p].pc = "enable"
    /\ MigrationStep(p, ok,
                  [migration EXCEPT
                      !.foreignKeyChecks = TRUE,
                      !.migrationComplete = TRUE,
                      !.migrationRunning = FALSE,
                      !.completed = TRUE,
                      !.call[p] = [pc |-> "done", i |-> 0,
                                   result |-> "migrated"]])

\* part_005:146-152  the catch re-enables the foreign key checks, ignores a
\* failure of that, and returns false
MigrationCleanup(p, ok) ==
    /\ migration.call[p].pc = "cleanup"
    /\ migration' =
           [migration EXCEPT
               !.foreignKeyChecks = IF ok THEN TRUE ELSE @,
               !.call[p] = [pc |-> "done", i |-> 0, result |-> "failed"]]
    /\ MigrationFrame

\* the caller has its answer
MigrationDone(p) ==
    /\ migration.call[p].pc = "done"
    /\ migration' = [migration EXCEPT !.call[p] = NoMigrationCall]
    /\ MigrationFrame

NextMigration ==
    \E p \in MigrationCallers :
        \/ MigrationStart(p)
        \/ \E ok \in BOOLEAN : MigrationGetAdminDb(p, ok)
        \/ \E ok \in BOOLEAN : MigrationColumns(p, ok)
        \/ \E ok \in BOOLEAN : MigrationDisable(p, ok)
        \/ \E ok \in BOOLEAN : MigrationDrop(p, ok)
        \/ MigrationSleep(p)
        \/ \E ok \in BOOLEAN : MigrationCreateAdminUsers(p, ok)
        \/ \E ok \in BOOLEAN : MigrationCreateSessions(p, ok)
        \/ \E ok \in BOOLEAN : MigrationCreateAuditLog(p, ok)
        \/ \E ok \in BOOLEAN : MigrationEnable(p, ok)
        \/ \E ok \in BOOLEAN : MigrationCleanup(p, ok)
        \/ MigrationDone(p)

SpecMigration == InitMigration /\ [][NextMigration]_vars

\* encryptPassword applied to a plaintext and decryptPassword to what it
\* gave, under one master key.
InitCrypto ==
    /\ InitLedger
    /\ OtherOff
    /\ poll = NoWait
    /\ \E plaintext \in Plaintexts, masterKey \in MasterKeys :
           pure = [pc |-> "encryptPassword", plaintext |-> plaintext,
                   masterKey |-> masterKey, salt |-> <<>>, iv |-> <<>>,
                   encrypted |-> Failure(NULL), decrypted |-> Failure(NULL)]

\* crypto.ts:44-78  encryptPassword returns or throws
EncryptPassword(salt, iv) ==
    LET encrypted ==
            encryptPassword(pure.plaintext, pure.masterKey, salt, iv) IN
    /\ pure.pc = "encryptPassword"
    /\ pure' = [pure EXCEPT !.salt = salt, !.iv = iv,
                            !.encrypted = encrypted,
                            !.pc = IF encrypted.ok THEN "decryptPassword"
                                   ELSE "done"]
    /\ UNCHANGED <<auth, settings, migration, clients, deployments, statusHist, auditLog, nextId, remote,
                   now, dbFaults, proc, poll, lendpro>>

\* crypto.ts:83-115  decryptPassword returns or throws
DecryptPassword ==
    /\ pure.pc = "decryptPassword"
    /\ pure' = [pure EXCEPT
                    !.decrypted = decryptPassword(pure.encrypted.value,
                                                  pure.masterKey),
                    !.pc = "done"]
    /\ UNCHANGED <<auth, settings, migration, clients, deployments, statusHist, auditLog, nextId, remote,
                   now, dbFaults, proc, poll, lendpro>>

NextCrypto ==
    \/ \E salt \in Salts, iv \in IVs : EncryptPassword(salt, iv)
    \/ DecryptPassword

SpecCrypto == InitCrypto /\ [][NextCrypto]_vars

----------------------------------------------------------------------------
(* decryptPassword applied to a token that is not what encryptPassword     *)
(* gave under the same master key (crypto.ts:83-115).                      *)

\* the byte with bit b inverted
FlipBit(byte, b) ==
    IF (byte \div (2 ^ b)) % 2 = 1 THEN byte - 2 ^ b ELSE byte + 2 ^ b

\* the token with bit b of byte i of its buffer inverted
AlterToken(token, i, b) ==
    LET buffer == Base64Decode(token) IN
    Base64Encode([k \in 1 .. Len(buffer) |->
                     IF k = i THEN FlipBit(buffer[k], b) ELSE buffer[k]])

\* crypto.ts:94-98  where the tag and the ciphertext are in the buffer
TagRegion == (SALT_LENGTH + IV_LENGTH + 1) .. (SALT_LENGTH + IV_LENGTH + TAG_LENGTH)
CiphertextRegion(token) ==
    (SALT_LENGTH + IV_LENGTH + TAG_LENGTH + 1) .. Len(Base64Decode(token))

\* the passwords that are encrypted
TokenPlaintexts == {<<97>>, <<97, 233>>}

\* process.env.ENCRYPTION_KEY of another environment: other hex digits, the
\* same digits and one more, a text that is no hex, another such text
OtherKeys ==
    {<<10, 11, 12, 13, 14, 15>>, <<1, 2, 3, 4, 5>>, <<16, 16, 16>>,
     <<16, 1, 2, 3, 4>>}

\* the master keys tokens are made under
TokenKeys == {EnvKey, <<16, 16, 16>>}

InitToken ==
    /\ InitLedger
    /\ OtherOff
    /\ poll = NoWait
    /\ \E plaintext \in TokenPlaintexts, masterKey \in TokenKeys :
           pure = [pc |-> "encryptPassword", plaintext |-> plaintext,
                   masterKey |-> masterKey, salt |-> <<>>, iv |-> <<>>,
                   encrypted |-> Failure(NULL), decrypted |-> Failure(NULL),
                   encryptKey |-> masterKey, altered |-> "none"]

\* the server is restarted with another ENCRYPTION_KEY
OtherMasterKey(masterKey) ==
    /\ pure.pc = "decryptPassword"
    /\ pure.altered = "none"
    /\ masterKey # pure.encryptKey
    /\ pure' = [pure EXCEPT !.masterKey = masterKey, !.altered = "key"]
    /\ UNCHANGED <<auth, settings, migration, clients, deployments, statusHist, auditLog, nextId, remote,
                   now, dbFaults, proc, poll, lendpro>>

\* one bit of the tag of the stored token is inverted
AlterTag(i, b) ==
    /\ pure.pc = "decryptPassword"
    /\ pure.altered = "none"
    /\ i \in TagRegion
    /\ pure' = [pure EXCEPT
                   !.encrypted = Value(AlterToken(pure.encrypted.value, i, b)),
                   !.altered = "tag"]
    /\ UNCHANGED <<auth, settings, migration, clients, deployments, statusHist, auditLog, nextId, remote,
                   now, dbFaults, proc, poll, lendpro>>

\* one bit of the ciphertext of the stored token is inverted
AlterCiphertext(i, b) ==
    /\ pure.pc = "decryptPassword"
    /\ pure.altered = "none"
    /\ i \in CiphertextRegion(pure.encrypted.value)
    /\ pure' = [pure EXCEPT
                   !.encrypted = Value(AlterToken(pure.encrypted.value, i, b)),
                   !.altered = "ciphertext"]
    /\ UNCHANGED <<auth, settings, migration, clients, deployments, statusHist, auditLog, nextId, remote,
                   now, dbFaults, proc, poll, lendpro>>

NextToken ==
    \/ \E nonce \in Nonces : EncryptPassword(nonce[1], nonce[2])
    \/ \E masterKey \in OtherKeys : OtherMasterKey(masterKey)
    \/ \E i \in TagRegion, b \in 0 .. 7 : AlterTag(i, b)
    \/ \E i \in 1 .. (SALT_LENGTH + IV_LENGTH + TAG_LENGTH + 4), b \in 0 .. 7 :
           AlterCiphertext(i, b)
    \/ DecryptPassword

SpecToken == InitToken /\ [][NextToken]_vars

\* waitForDeployment alone: deployClient enters it with its timeout at some
\* reading of the clock; the remote platform answers what it likes.
InitPoll ==
    /\ InitLedger
    /\ OtherOff
    /\ pure = NoEval
    /\ \E t \in {0, DeployTimeout} : poll = WaitStart(DeployTimeout, t)

NextPoll ==
    \/ \E status \in StatusStrings, latency \in LateSteps :
           WaitStatus(status, latency)
    \/ \E latency \in LateSteps : WaitStatusThrows(latency)
    \/ \E late \in LateSteps : WaitSleep(late)

\* the event loop runs every continuation that is ready
SpecPoll == InitPoll /\ [][NextPoll]_vars /\ WF_vars(NextPoll)

----------------------------------------------------------------------------
(* The claims.                                                             *)

IsPrefix(a, b) == Len(a) <= Len(b) /\ a = SubSeq(b, 1, Len(a))

\* the ledger row of the request of caller p, when it has one
HasRow(p) == proc[p].did \in DOMAIN deployments
Row(p) == deployments[proc[p].did]

\* C1: in every reachable state, whatever the interleaving of deploy calls,
\* a client has at most one ledger row in a non-terminal status (pending,
\* building, deploying).
C1_AtMostOneInFlight ==
    \A c \in ClientIds : Cardinality(InFlightRows(c)) <= 1

\* C2: a deploy called while a ledger row of the same client is in a
\* non-terminal status creates no ledger row, issues no remote call, and
\* ends with a ConflictError.
C2_SecondDeployRejected ==
    \A p \in Procs :
        proc[p].conflict =>
            /\ ~HasRow(p)
            /\ proc[p].calls = <<>>
            /\ proc[p].pc = "done" =>
                   /\ proc[p].outcome.kind = "throw"
                   /\ proc[p].outcome.message = "ConflictError"

\* C3: the statuses a ledger row takes, in order, are a prefix of
\* pending, building, deploying, success, or of pending, building,
\* deploying, failed, or of pending, failed; so a row is deploying before
\* it is success.
C3_StatusSequence ==
    \A d \in DOMAIN statusHist :
        \/ IsPrefix(statusHist[d], <<"pending", "building", "deploying", "success">>)
        \/ IsPrefix(statusHist[d], <<"pending", "building", "deploying", "failed">>)
        \/ IsPrefix(statusHist[d], <<"pending", "failed">>)

\* C4: once a ledger row is in a terminal status, no later write changes
\* its status, its error message or its completion timestamp, also when a
\* ledger or audit write fails after the terminal status was written.
C4_TerminalRowFrozen ==
    [][\A d \in DOMAIN deployments :
          deployments[d].status \in Terminal =>
              /\ deployments'[d].status = deployments[d].status
              /\ deployments'[d].errorMessage = deployments[d].errorMessage
              /\ deployments'[d].completedAt = deployments[d].completedAt]_vars

\* C5: in every reachable state the completion timestamp of a ledger row is
\* null exactly when its status is non-terminal.
C5_CompletedIffTerminal ==
    \A d \in DOMAIN deployments :
        (deployments[d].completedAt = NoTime)
            <=> (deployments[d].status \in NonTerminal)

\* C5 witness: a row that reached a terminal status and has its timestamp,
\* beside the states in which it had none.
C5_Witness ==
    \E d \in DOMAIN deployments :
        /\ deployments[d].status = "failed"
        /\ deployments[d].completedAt # NoTime
        /\ Len(statusHist[d]) = 3

\* the request of caller p has ended, a provisioning step having thrown
\* and every statement of the ledger having worked
StepFailed(p) ==
    /\ proc[p].pc = "done"
    /\ proc[p].stepError # NULL
    /\ ~proc[p].dbFault

\* C6: when a step of full provisioning fails (a remote call throws, the
\* poll reports a failure status or times out, the domain cannot be
\* resolved), the deploy ends with the client failed, the ledger row failed
\* with the message of the error and a completion timestamp, and the
\* caller gets an error with that message.
C6_FailureReported ==
    \A p \in Procs :
        StepFailed(p) =>
            /\ proc[p].outcome.kind = "throw"
            /\ proc[p].outcome.message = proc[p].stepError
            /\ proc[p].wrote = "failed"
            /\ clients[proc[p].cid].status = "failed"
            /\ HasRow(p)
            /\ Row(p).status = "failed"
            /\ Row(p).errorMessage = proc[p].stepError
            /\ Row(p).completedAt # NoTime

\* C6 witness: a deploy that ended because the poll timed out.
C6_Witness ==
    \E p \in Procs :
        /\ StepFailed(p)
        /\ proc[p].stepError = TimeoutError(DeployTimeout)
        /\ Row(p).status = "failed"

\* the request of caller p has ended, every provisioning call having
\* returned, the poll having seen a success status, and every statement of
\* the ledger having worked
Provisioned(p) ==
    /\ proc[p].pc = "done"
    /\ proc[p].provisioned
    /\ ~proc[p].dbFault

\* the request of caller p returned success with the project created for
\* it, and its ledger row is success with a completion timestamp
SuccessReported(p) ==
    /\ proc[p].outcome.kind = "return"
    /\ proc[p].outcome.result.success
    /\ proc[p].outcome.result.projectId = proc[p].projectId
    /\ proc[p].outcome.result.projectId \in remote.projects
    /\ HasRow(p)
    /\ Row(p).status = "success"
    /\ Row(p).completedAt # NoTime

\* C7 as stated: when every provisioning call succeeds and the poll sees a
\* success status, deploy returns success with the project id and the
\* service URL, and the ledger row ends success with a completion timestamp.
C7_Original ==
    \A p \in Procs :
        Provisioned(p) =>
            /\ SuccessReported(p)
            /\ proc[p].outcome.result.serviceUrl # NULL

\* C7 amended: when every provisioning call succeeds and the poll sees a
\* success status, deploy returns success with the project id, and with
\* the service URL only when the service already has a public domain (it
\* is then the first one; otherwise the result has no service URL); the
\* ledger row ends success with a completion timestamp.
C7_SuccessReported ==
    \A p \in Procs :
        Provisioned(p) =>
            /\ SuccessReported(p)
            /\ proc[p].outcome.result.serviceUrl = proc[p].serviceUrl
            /\ proc[p].serviceUrl \in {NULL, "web.up.railway.app"}

\* C7 witness: a successful deploy whose service had no public domain yet.
C7_Witness ==
    \E p \in Procs :
        /\ Provisioned(p)
        /\ proc[p].outcome.result.serviceUrl = NULL
        /\ Row(p).status = "success"

\* the ways the polling loop can have ended
EndsBySuccess ==
    /\ poll.outcome = "return"
    /\ poll.status \in {"SUCCESS", "ACTIVE"}
EndsByFailure ==
    /\ poll.outcome = "throw"
    /\ poll.status \in {"FAILED", "CRASHED"}
    /\ poll.message = "Deployment failed with status: " \o poll.status
EndsByTimeout ==
    /\ poll.outcome = "throw"
    /\ poll.status \notin {"SUCCESS", "ACTIVE", "FAILED", "CRASHED"}
    /\ poll.message = TimeoutError(poll.timeout)
    /\ poll.clock - poll.startTime >= poll.timeout
    /\ poll.message \notin
           {"Deployment failed with status: " \o st : st \in RemoteStatuses}
EndsByRemoteError ==
    /\ poll.outcome = "throw"
    /\ poll.status = NULL
    /\ poll.message = RemoteError

\* how many of the conditions hold
Count(conditions) ==
    Cardinality({i \in DOMAIN conditions : conditions[i]})

\* C8 as stated: the polling loop ends in exactly one of three ways: it
\* returns when it sees a success status, it throws an error with the
\* status when it sees a failure status, it throws a different, timeout
\* error when the timeout passes with no terminal status.
C8_Original ==
    poll.pc = "done" =>
        Count(<<EndsBySuccess, EndsByFailure, EndsByTimeout>>) = 1

\* C8 amended: the polling loop ends in exactly one of four ways: the three
\* above, or it lets through the error that getDeploymentStatus itself
\* threw; and it goes on polling only after a non-terminal status.
C8_FourEndings ==
    /\ poll.pc = "done" =>
           Count(<<EndsBySuccess, EndsByFailure, EndsByTimeout,
                   EndsByRemoteError>>) = 1
    /\ poll.pc = "sleep" =>
           poll.status \notin {"SUCCESS", "ACTIVE", "FAILED", "CRASHED"}
    /\ poll.pc # "done" => poll.outcome = "none"

\* C8 witness: the loop ended by the error of getDeploymentStatus, after
\* it had polled more than once.
C8_Witness ==
    /\ poll.pc = "done"
    /\ EndsByRemoteError
    /\ poll.polls > 1

\* the loop has only seen non-terminal statuses, and every poll answered
OnlyNonTerminal ==
    /\ poll.status \notin {"SUCCESS", "ACTIVE", "FAILED", "CRASHED"}
    /\ poll.message # RemoteError

\* C9: when the status source only returns non-terminal statuses, the
\* polling loop ends, with the timeout error, once the time elapsed has
\* reached the timeout, and it has polled at most timeout / interval + 1
\* times.
C9_TimeoutBound ==
    /\ [](OnlyNonTerminal =>
              /\ poll.polls <= (poll.timeout \div pollInterval) + 1
              /\ poll.pc = "done" =>
                     /\ poll.outcome = "throw"
                     /\ poll.message = TimeoutError(poll.timeout)
                     /\ poll.clock - poll.startTime >= poll.timeout)
    /\ <>(poll.pc = "done")

\* C9 witness: the loop timed out after as many polls as fit.
C9_Witness ==
    /\ poll.pc = "done"
    /\ OnlyNonTerminal
    /\ poll.message = TimeoutError(DeployTimeout)
    /\ poll.polls = DeployTimeout \div pollInterval

\* the order of the remote operations of one attempt
C10_Order ==
    <<"createProject", "createMySQLService", "createService",
      "setEnvironmentVariables", "triggerDeployment", "getDeploymentStatus",
      "getServiceDomain", "addCustomDomain">>

\* C10: within one attempt the remote operations are issued in the order
\* createProject, create database service, create application service, set
\* variables, trigger, poll (as often as needed), resolve domain, add
\* custom domain, and none is issued while another is still in flight.
C10_CallOrder ==
    \A p \in Procs :
        /\ IsPrefix(proc[p].calls, C10_Order)
        /\ Cardinality(proc[p].inflight) <= 1
        /\ proc[p].inflight # {} =>
               proc[p].inflight = {proc[p].calls[Len(proc[p].calls)]}

\* C10 witness: an attempt that issued every operation, the last one
\* still in flight.
C10_Witness ==
    \E p \in Procs :
        /\ proc[p].calls = C10_Order
        /\ proc[p].inflight = {"addCustomDomain"}

\* how often the operation `call` was issued in the history `calls`
Issued(calls, call) ==
    Cardinality({i \in DOMAIN calls : calls[i] = call})

\* the remote operations of provisioning, which are not repeated
C11_ProvisioningCalls ==
    {"createProject", "createMySQLService", "createService",
     "setEnvironmentVariables", "triggerDeployment"}

\* C11: once a remote call of an attempt has failed, the attempt issues no
\* further remote call (none is in flight and the history of its calls
\* stays as it is), and no provisioning call (createProject, create
\* service, set variables, trigger) is issued more than once per attempt.
C11_NoCallAfterFailure ==
    [][\A p \in Procs :
          /\ \A call \in C11_ProvisioningCalls :
                 Issued(proc'[p].calls, call) <= 1
          /\ proc[p].stepError # NULL /\ proc'[p].pc # "idle" =>
                 /\ proc'[p].calls = proc[p].calls
                 /\ proc'[p].inflight = {}]_vars

\* C11 witness: an attempt that ended after createService had failed, with
\* nothing issued after it.
C11_Witness ==
    \E p \in Procs :
        /\ proc[p].pc = "done"
        /\ proc[p].stepError = RemoteError
        /\ proc[p].calls =
               <<"createProject", "createMySQLService", "createService">>
        /\ proc[p].inflight = {}

\* C12: a deploy of a client whose remote project id is already recorded
\* issues no createProject, create database service or create application
\* service call; it only sets the variables, triggers a build and polls.
C12_RedeploySkipsCreation ==
    \A p \in Procs :
        proc[p].snap.railwayProjectId # NULL =>
            \A i \in DOMAIN proc[p].calls :
                proc[p].calls[i] \in
                    {"setEnvironmentVariables", "triggerDeployment",
                     "getDeploymentStatus"}

\* the request of caller p has ended, addCustomDomain having thrown after
\* every earlier step succeeded, and every statement of the ledger having
\* worked
OnlyDomainFailed(p) ==
    /\ proc[p].pc = "done"
    /\ proc[p].domainFailed
    /\ ~proc[p].dbFault

\* C13: when every earlier step succeeds and only addCustomDomain fails, the
\* deploy still returns success with the project id of the project it
\* created and the service URL it resolved, and the client ends active
\* with that project id recorded.
C13_DomainFailureTolerated ==
    \A p \in Procs :
        OnlyDomainFailed(p) =>
            /\ proc[p].stepError = NULL
            /\ proc[p].outcome.kind = "return"
            /\ proc[p].outcome.result.success
            /\ proc[p].outcome.result.projectId = proc[p].projectId
            /\ proc[p].outcome.result.projectId \in remote.projects
            /\ proc[p].outcome.result.serviceUrl = proc[p].serviceUrl
            /\ proc[p].wrote = "active"
            /\ clients[proc[p].cid].status = "active"
            /\ clients[proc[p].cid].railwayProjectId = proc[p].projectId
            /\ Row(p).status = "success"

\* C13 witness: a deploy that returned success although addCustomDomain
\* threw, with a service URL resolved.
C13_Witness ==
    \E p \in Procs :
        /\ OnlyDomainFailed(p)
        /\ proc[p].outcome.kind = "return"
        /\ proc[p].outcome.result.serviceUrl = "web.up.railway.app"
        /\ clients[proc[p].cid].status = "active"

\* the ledger rows that reference client c
RowsOf(c) == {d \in DOMAIN deployments : deployments[d].clientId = c}

\* C14: when clients.delete is called for an existing client and the remote
\* deleteProject call fails, the client row and the rows that reference it
\* are removed all the same and the caller gets success, not the remote
\* error; and the remote deletion is attempted, and has returned, before
\* the local rows are removed.
C14_DeleteSurvivesRemoteFailure ==
    \A p \in Procs :
        /\ proc[p].remoteFailed /\ proc[p].pc = "done" =>
               /\ proc[p].outcome.kind = "return"
               /\ proc[p].outcome.result.success
               /\ proc[p].wrote = "deleted"
               /\ proc[p].cid \notin DOMAIN clients
               /\ RowsOf(proc[p].cid) = {}
        /\ proc[p].pc = "deleteProject" =>
               /\ proc[p].wrote = NULL
               /\ proc[p].cid \in DOMAIN clients
        /\ proc[p].wrote = "deleted" /\ proc[p].snap.railwayProjectId # NULL =>
               /\ proc[p].calls = <<"deleteProject">>
               /\ proc[p].inflight = {}

\* C14 witness: a delete that returned success after deleteProject threw,
\* the remote project still being there.
C14_Witness ==
    \E p \in Procs :
        /\ proc[p].pc = "done"
        /\ proc[p].remoteFailed
        /\ proc[p].outcome.kind = "return"
        /\ proc[p].snap.railwayProjectId \in remote.projects
        /\ proc[p].cid \notin DOMAIN clients

\* C15: whatever the remote platform and the ledger answer, a deploy or a
\* delete that has ended gave its caller a result (success, or failure
\* with an error string) and never threw an error.
C15_NoThrowAcrossBoundary ==
    \A p \in Procs :
        proc[p].pc = "done" =>
            /\ proc[p].outcome.kind = "return"
            /\ ~proc[p].outcome.result.success =>
                   proc[p].outcome.result.error # NULL

\* client c holds a remote-platform handle
HasHandles(c) ==
    \/ clients[c].railwayProjectId # NULL
    \/ clients[c].railwayProjectUrl # NULL
    \/ clients[c].serviceUrl # NULL

\* C16: in every reachable state a client holds remote-platform handles
\* (project id, project URL, service URL) only if a deployment attempt of
\* that client has ended in success: a ledger row of the client is success,
\* or the write that makes it so is in flight.
C16_HandlesOnlyAfterSuccess ==
    \A c \in DOMAIN clients :
        HasHandles(c) =>
            \/ \E d \in RowsOf(c) : deployments[d].status = "success"
            \/ \E p \in Procs : /\ proc[p].cid = c
                                /\ proc[p].pc = "updateDeploymentSuccess"

\* the token that encryptPassword gave, as bytes
TokenBytes == Base64Decode(pure.encrypted.value)

\* the token is salt, IV, tag and ciphertext, in that order, the ciphertext
\* as long as the UTF-8 bytes of the plaintext
TokenLayout ==
    LET key == deriveKey(pure.salt, pure.masterKey)
        data == Slice(TokenBytes, SALT_LENGTH + IV_LENGTH + TAG_LENGTH,
                      Len(TokenBytes))
    IN  /\ Slice(TokenBytes, 0, SALT_LENGTH) = pure.salt
        /\ Slice(TokenBytes, SALT_LENGTH, SALT_LENGTH + IV_LENGTH) = pure.iv
        /\ Slice(TokenBytes, SALT_LENGTH + IV_LENGTH,
                 SALT_LENGTH + IV_LENGTH + TAG_LENGTH)
               = AuthTag(key, pure.iv, data)
        /\ Len(data) = Len(Utf8Encode(pure.plaintext))
        /\ Decipher(key, pure.iv, data) = Utf8Encode(pure.plaintext)

\* a string in which every surrogate has its partner
RECURSIVE WellFormed(_)
WellFormed(str) ==
    IF str = <<>> THEN TRUE
    ELSE IF IsHighSurrogate(Head(str))
    THEN Len(str) >= 2 /\ IsLowSurrogate(str[2]) /\ WellFormed(Tail(Tail(str)))
    ELSE ~IsLowSurrogate(Head(str)) /\ WellFormed(Tail(str))

\* C20 as stated: for all plaintexts P and master keys K (a master key
\* being one that is set), decrypt(encrypt(P, K), K) returns P, and the
\* token is salt, IV, tag and ciphertext in that order, split by decrypt at
\* the same offsets.
C20_Original ==
    pure.pc = "done" /\ pure.masterKey # <<>> =>
        /\ pure.encrypted.ok
        /\ pure.decrypted = Value(pure.plaintext)
        /\ TokenLayout

\* C20 amended: for all plaintexts P in which no surrogate code unit stands
\* without its partner and all non-empty master keys K,
\* decrypt(encrypt(P, K), K) returns P; a surrogate without partner comes
\* back as U+FFFD; with an empty master key encrypt throws.  The token is
\* salt, IV, tag and ciphertext in that order and decrypt splits it at the
\* same offsets.
C20_RoundTrip ==
    pure.pc = "done" =>
        IF pure.masterKey = <<>>
        THEN pure.encrypted = Failure("Failed to encrypt password")
        ELSE /\ pure.encrypted.ok
             /\ TokenLayout
             /\ pure.decrypted.ok
             /\ pure.decrypted.value = Utf8Decode(Utf8Encode(pure.plaintext))
             /\ WellFormed(pure.plaintext) =>
                    pure.decrypted = Value(pure.plaintext)
             /\ ~WellFormed(pure.plaintext) =>
                    /\ pure.decrypted.value # pure.plaintext
                    /\ \E i \in DOMAIN pure.decrypted.value :
                           pure.decrypted.value[i] = ReplacementChar

\* C20 witness: a two-byte character and a surrogate pair came back as they
\* were.
C20_Witness ==
    /\ pure.pc = "done"
    /\ pure.plaintext \in {<<233, 97>>, <<55357, 56832>>}
    /\ pure.decrypted = Value(pure.plaintext)
    /\ Len(TokenBytes) > SALT_LENGTH + IV_LENGTH + TAG_LENGTH

\* the non-empty passwords that were ever given to the server
Secrets == (Passwords \ {<<>>}) \cup {<<97>>}

\* the audit entry holds none of the secrets
SecretFree(entry) ==
    CASE entry.action \in {"create_client", "update_client_lendpro"} ->
             /\ "password" \notin DOMAIN entry.details
             /\ \A f \in DOMAIN entry.details \ {"passwordUpdated"} :
                    entry.details[f] \notin Secrets
      [] entry.action = "deploy_client" ->
             DOMAIN entry.details =
                 {"success", "clientId", "projectId", "projectUrl",
                  "serviceUrl", "error"}
      [] entry.action = "delete_client" -> entry.details = NULL

\* every token encryptPassword can produce for a password that was given
Tokens ==
    {encryptPassword(P, EnvKey, salt, iv).value :
        P \in Secrets \cup {<<>>}, salt \in Salts, iv \in IVs}

\* every such token decrypts under the master key to a password that was given
TokensDecrypt ==
    \A t \in Tokens :
        /\ decryptPassword(t, EnvKey).ok
        /\ decryptPassword(t, EnvKey).value \in Secrets \cup {<<>>}

\* C17: after any sequence of create, updateLendpro, get, deploy and delete
\* the password held in client_lendpro_config is a token of encryptPassword
\* (it decrypts under the master key to a password that was given) and
\* never a password as given, and no audit entry holds a password.
C17_PasswordNeverPlain ==
    /\ TokensDecrypt
    /\ \A c \in DOMAIN lendpro :
           /\ lendpro[c].password \notin Secrets
           /\ lendpro[c].password \in Tokens
    /\ \A i \in DOMAIN auditLog : SecretFree(auditLog[i])

\* C17 witness: updateLendpro has replaced the password of c1, its audit
\* entry is written, and a client was created or deleted as well.
C17_Witness ==
    /\ "c1" \in DOMAIN lendpro
    /\ lendpro["c1"].password
           \in {encryptPassword(<<113, 233>>, EnvKey, n[1], n[2]).value :
                   n \in Nonces}
    /\ \E i \in DOMAIN auditLog :
           /\ auditLog[i].action = "update_client_lendpro"
           /\ auditLog[i].details.passwordUpdated
    /\ \E i \in DOMAIN auditLog : auditLog[i].action = "create_client"


\* the clients row of y (status and handles) is written, added or removed
\* by the step
ClientRowWritten(y) ==
    \/ (y \in DOMAIN clients) # (y \in DOMAIN clients')
    \/ /\ y \in DOMAIN clients
       /\ y \in DOMAIN clients'
       /\ clients'[y] # clients[y]

\* the deployment rows of client y in the table, with their ids
LedgerRowsOf(tbl, y) ==
    {<<d, tbl[d]>> : d \in {e \in DOMAIN tbl : tbl[e].clientId = y}}

\* a deployment row of y is written, added or removed by the step
DeploymentRowsWritten(y) ==
    LedgerRowsOf(deployments', y) # LedgerRowsOf(deployments, y)

Entries(list, key) == Cardinality({i \in DOMAIN list : list[i].key = key})

\* the one entry with the key has the value
Once(list, key, value) ==
    /\ Entries(list, key) = 1
    /\ \A i \in DOMAIN list : list[i].key = key => list[i].value = value

\* the key has one entry with the value when the condition holds and none
\* otherwise
OnlyIf(list, key, condition, value) ==
    IF condition THEN Once(list, key, value) ELSE Entries(list, key) = 0

\* the value of a branding field, empty when there is no branding
BrandingField(config, field) ==
    IF config.branding = <<>> THEN "" ELSE config.branding[1][field]

\* C19: for every config the list buildEnvironmentVariables returns has
\* exactly one entry for each always-present key (NODE_ENV = production,
\* PORT, the six lendpro fields, DATABASE_URL naming the database service,
\* OAUTH_SERVER_URL), visualizer keys only if visualizer is configured,
\* CART_ONLY_MODE only if cartOnly is set, a branding key only for each
\* non-empty branding field, no other key, and no key twice.
C19_EnvironmentVariables ==
    pure.pc = "returned" =>
        LET config == pure.config
            list == pure.vars
            configured == config.visualizer # <<>>
            visualizer == IF configured THEN config.visualizer[1]
                          ELSE [enabled |-> FALSE, embedCode |-> "",
                                autoSyncApiKey |-> ""]
        IN
        /\ Once(list, "NODE_ENV", "production")
        /\ Once(list, "PORT", "3000")
        /\ Once(list, "LENDPRO_API_URL", config.lendpro.apiUrl)
        /\ Once(list, "LENDPRO_USERNAME", config.lendpro.username)
        /\ Once(list, "LENDPRO_PASSWORD", config.lendpro.password)
        /\ Once(list, "LENDPRO_STORE_ID", config.lendpro.storeId)
        /\ Once(list, "LENDPRO_SALES_ID", config.lendpro.salesId)
        /\ Once(list, "LENDPRO_SALES_NAME", config.lendpro.salesName)
        /\ Once(list, "DATABASE_URL",
                "${{" \o pure.mysqlServiceId \o ".MYSQL_URL}}")
        /\ Once(list, "OAUTH_SERVER_URL", "http://localhost:3000")
        /\ OnlyIf(list, "VISUALIZER_ENABLED", configured,
                  IF visualizer.enabled THEN "true" ELSE "false")
        /\ OnlyIf(list, "VISUALIZER_EMBED_CODE",
                  configured /\ visualizer.embedCode # "",
                  visualizer.embedCode)
        /\ OnlyIf(list, "AUTOSYNC_API_KEY",
                  configured /\ visualizer.autoSyncApiKey # "",
                  visualizer.autoSyncApiKey)
        /\ OnlyIf(list, "CART_ONLY_MODE",
                  config.features # <<>> /\ config.features[1].cartOnly,
                  "true")
        /\ OnlyIf(list, "VITE_PRIMARY_COLOR",
                  BrandingField(config, "primaryColor") # "",
                  BrandingField(config, "primaryColor"))
        /\ OnlyIf(list, "VITE_SECONDARY_COLOR",
                  BrandingField(config, "secondaryColor") # "",
                  BrandingField(config, "secondaryColor"))
        /\ OnlyIf(list, "VITE_COMPANY_NAME",
                  BrandingField(config, "companyName") # "",
                  BrandingField(config, "companyName"))
        /\ OnlyIf(list, "VITE_LOGO_URL",
                  BrandingField(config, "logoUrl") # "",
                  BrandingField(config, "logoUrl"))
        /\ \A i, j \in DOMAIN list : list[i].key = list[j].key => i = j
        /\ Len(list) =
               Cardinality({list[i].key : i \in DOMAIN list})
        /\ {list[i].key : i \in DOMAIN list} \subseteq
               {"NODE_ENV", "PORT", "LENDPRO_API_URL", "LENDPRO_USERNAME",
                "LENDPRO_PASSWORD", "LENDPRO_STORE_ID", "LENDPRO_SALES_ID",
                "LENDPRO_SALES_NAME", "DATABASE_URL", "OAUTH_SERVER_URL",
                "VISUALIZER_ENABLED", "VISUALIZER_EMBED_CODE",
                "AUTOSYNC_API_KEY", "CART_ONLY_MODE", "VITE_PRIMARY_COLOR",
                "VITE_SECONDARY_COLOR", "VITE_COMPANY_NAME",
                "VITE_LOGO_URL"}

\* C19 witness: the function has returned for a config with a visualizer
\* that has an embed code and no API key, cartOnly set, and a branding with
\* two fields filled in and two empty: ten entries and five more.
C19_Witness ==
    /\ pure.pc = "returned"
    /\ pure.config.visualizer # <<>>
    /\ pure.config.visualizer[1].embedCode # ""
    /\ pure.config.visualizer[1].autoSyncApiKey = ""
    /\ pure.config.features # <<>>
    /\ pure.config.features[1].cartOnly
    /\ pure.config.branding # <<>>
    /\ pure.config.branding[1].primaryColor # ""
    /\ pure.config.branding[1].companyName # ""
    /\ pure.config.branding[1].secondaryColor = ""
    /\ pure.config.branding[1].logoUrl = ""
    /\ Len(pure.vars) = 15


\* C21: decryptPassword applied to a token under a master key other than
\* the one it was made under, or to a token with one bit of its tag or of
\* its ciphertext inverted, fails with an error and returns no plaintext.
C21_AlteredTokenFails ==
    (pure.pc = "done" /\ pure.altered # "none") =>
        /\ ~pure.decrypted.ok
        /\ pure.decrypted.error = "Failed to decrypt password"


\* C22: the handler of clients.list and clients.get is entered only for a
\* caller that is logged in, the handler of clients.create, clients.update
\* and clients.deploy only for a caller with the admin or the super_admin
\* role, and the handler of clients.delete only for a super_admin.
C22_RoutesGuarded ==
    pure.pc = "handler" =>
        /\ pure.route \in {"clients.list", "clients.get"} =>
               pure.ctx.user # "none"
        /\ pure.route \in {"clients.create", "clients.update",
                           "clients.deploy"} =>
               pure.ctx.user \in {"admin", "super_admin"}
        /\ pure.route = "clients.delete" => pure.ctx.user = "super_admin"


\* a deploy request for client c has been accepted and has not yet answered
AttemptInFlight(c) ==
    \E p \in Procs : proc[p].cid = c /\ proc[p].pc \notin {"idle", "done"}

\* the row of the attempt for client c that started last
LatestAttempt(c) ==
    deployments[CHOOSE d \in RowsOf(c) : \A e \in RowsOf(c) : e <= d]

\* C23: for each client, whenever no deployment attempt is in flight and at
\* least one has completed, the client's status is active if the attempt
\* that started last ended in success and failed if it ended in failed.
C23_StatusOfLatestAttempt ==
    \A c \in ClientIds :
        (~AttemptInFlight(c) /\ RowsOf(c) # {}) =>
            /\ LatestAttempt(c).status = "success" =>
                   clients[c].status = "active"
            /\ LatestAttempt(c).status = "failed" =>
                   clients[c].status = "failed"


\* C24: a client whose status is deploying has at least one deployment row
\* in a non-terminal status; the row of an attempt exists when the attempt
\* has marked the client deploying, and the attempt has written the
\* client's final status when its row is terminal.
C24_DeployingHasOpenRow ==
    /\ \A c \in DOMAIN clients :
           clients[c].status = "deploying" =>
               \E d \in RowsOf(c) : deployments[d].status \in NonTerminal
    /\ \A p \in Procs :
           /\ proc[p].wrote = "deploying" =>
                  /\ proc[p].did \in DOMAIN deployments
                  /\ deployments[proc[p].did].status \in NonTerminal
           /\ (proc[p].pc # "idle" /\ proc[p].did \in DOMAIN deployments
                                    /\ deployments[proc[p].did].status \in Terminal) =>
                  proc[p].wrote \in {"active", "failed"}

\* C24 witness: two attempts for one client; the first has written the
\* client's final status and its terminal row, the second has marked the
\* client deploying again and its row is building.
C24_Witness ==
    \E p, q \in Procs :
        /\ p # q
        /\ proc[p].cid = proc[q].cid
        /\ proc[p].cid \in DOMAIN clients
        /\ proc[p].wrote \in {"active", "failed"}
        /\ proc[p].did \in DOMAIN deployments
        /\ deployments[proc[p].did].status \in Terminal
        /\ proc[q].wrote = "deploying"
        /\ proc[q].did \in DOMAIN deployments
        /\ deployments[proc[q].did].status = "building"
        /\ clients[proc[q].cid].status = "deploying"


\* the remote projects that were created for client c and still exist
ProjectsOf(c) == {id \in remote.projects : remote.owner[id] = c}

\* C25: when clients.delete has completed for a client, with no
\* deleteProject call having failed and no deploy for the client still in
\* progress, no remote project that a deploy attempt for that client
\* created is left.
C25_NoProjectLeft ==
    \A p \in Procs :
        (/\ proc[p].pc = "done"
         /\ proc[p].wrote = "deleted"
         /\ ~proc[p].remoteFailed
         /\ \A q \in Procs \ {p} : proc[q].cid # proc[p].cid) =>
            ProjectsOf(proc[p].cid) = {}


\* C26: in the polling loop an answer of getDeploymentStatus ends the wait
\* with a return exactly when its status is SUCCESS or ACTIVE and with the
\* failure error exactly when it is FAILED or CRASHED; after any other
\* status string the loop sleeps, and when the timer of the poll interval
\* has fired it polls again while the time elapsed is short of the timeout
\* and throws the timeout error otherwise.
C26_OnlyFourStatusesEnd ==
    [][/\ (poll.pc = "getDeploymentStatus" /\ poll'.message # RemoteError) =>
              /\ poll'.status \in StatusStrings
              /\ (poll'.pc = "done" /\ poll'.outcome = "return")
                     <=> poll'.status \in {"SUCCESS", "ACTIVE"}
              /\ (poll'.pc = "done" /\ poll'.outcome = "throw")
                     <=> poll'.status \in {"FAILED", "CRASHED"}
              /\ poll'.outcome = "throw" =>
                     poll'.message = FailedStatusError(poll'.status)
              /\ poll'.status \notin {"SUCCESS", "ACTIVE", "FAILED", "CRASHED"}
                     <=> (poll'.pc = "sleep" /\ poll'.outcome = "none")
       /\ poll.pc = "sleep" =>
              /\ poll'.clock - poll.clock >= pollInterval
              /\ IF poll'.clock - poll.startTime < poll.timeout
                 THEN /\ poll'.pc = "getDeploymentStatus"
                      /\ poll'.polls = poll.polls + 1
                 ELSE /\ poll'.pc = "done"
                      /\ poll'.outcome = "throw"
                      /\ poll'.message = TimeoutError(poll.timeout)]_vars

\* C26 witness: the loop has polled more than once and the last answer was
\* a status string that is none of the platform's build statuses; the loop
\* sleeps.
C26_Witness ==
    /\ poll.pc = "sleep"
    /\ poll.polls > 1
    /\ poll.status \in {"REMOVED", "success", ""}
    /\ poll.outcome = "none"


\* the request of caller p has ended with a not-found error
NotFound(p) ==
    /\ proc[p].pc = "done"
    /\ proc[p].outcome.kind = "throw"
    /\ proc[p].outcome.message
           \in {NotFoundError(proc[p].cid), "Client not found"}

\* C27: a deploy or a delete whose client id names no client row when the
\* handler looks it up fails with the not-found error, and no step of the
\* request creates a ledger row, writes a client status, appends an audit
\* entry or issues a remote call.
C27_NotFoundChangesNothing ==
    [][\A p \in Procs :
           /\ (/\ proc[p].pc \in {"getClient", "delete.getClient"}
               /\ proc[p].cid \notin DOMAIN clients
               /\ proc'[p] # proc[p]) =>
                  /\ proc'[p].pc = "done"
                  /\ proc'[p].outcome.kind = "throw"
                  /\ proc'[p].outcome.message
                         = (IF proc[p].pc = "getClient"
                            THEN NotFoundError(proc[p].cid)
                            ELSE "Client not found")
                  /\ proc'[p].calls = <<>>
                  /\ proc'[p].inflight = {}
                  /\ proc'[p].wrote = NULL
                  /\ UNCHANGED <<clients, deployments, statusHist, auditLog,
                                 remote, lendpro, nextId>>
           /\ (proc[p].pc = "idle" /\ proc'[p] # proc[p]) =>
                  UNCHANGED <<clients, deployments, statusHist, auditLog,
                              remote, lendpro, nextId>>
           /\ (proc[p].pc = "done" /\ proc[p].outcome.kind = "throw"
                 /\ proc[p].outcome.message
                        \in {NotFoundError(proc[p].cid), "Client not found"}) =>
                  /\ proc[p].calls = <<>>
                  /\ proc[p].wrote = NULL
                  /\ proc[p].did \notin DOMAIN deployments]_vars

\* C27 witness: a deploy and a delete have both ended with the not-found
\* error, the deploy for a client that was deleted before and the delete
\* for an id that never existed; the audit log holds the entry of the
\* earlier delete.
C27_Witness ==
    /\ \E p, q \in Procs :
           /\ p # q
           /\ NotFound(p)
           /\ NotFound(q)
           /\ proc[p].cid \in ClientIds
           /\ proc[q].cid = UnknownId
           /\ proc[p].outcome.message = NotFoundError(proc[p].cid)
           /\ proc[q].outcome.message = "Client not found"
    /\ Len(auditLog) > 0


\* C28: getCurrentUser(token) returns a user only for a signed token that is
\* not expired and has a session row; and a call made after logout(token)
\* has returned true, or after the expiry time of the token's sessions has
\* passed, returns null.
C28_NoUserAfterLogout ==
    (auth.call.op = "getCurrentUser" /\ auth.call.pc = "done") =>
        /\ auth.call.result # NULL =>
               /\ auth.call.token.signed
               /\ auth.call.token \in auth.issued
               /\ auth.call.result = auth.call.token.userId
        /\ (auth.call.afterLogout \/ auth.call.afterExpiry) =>
               auth.call.result = NULL


\* C29: whatever the interleaving of the calls of updateClientBranding,
\* updateClientFeatures and updateClientVisualizer, a client has at most one
\* row in each of the three tables.
C29_AtMostOneRow ==
    \A tbl \in SettingsTables, clientId \in {BareClient, FullClient} :
        Cardinality(SettingsRows(tbl, clientId)) <= 1

\* the calls that hold the running flag, and those of them that are in the
\* sequence from disabling the foreign key checks, over the drops and the
\* creates, to enabling the checks again
HoldsFlag(p) ==
    migration.call[p].pc \in
        {"getAdminDb", "columns", "disable", "drop", "sleep",
         "create admin_users", "create sessions", "create audit_log",
         "enable"}

InSequence(p) ==
    migration.call[p].pc \in
        {"drop", "sleep", "create admin_users", "create sessions",
         "create audit_log", "enable"}

\* C30: no two calls of migrateAdminUsersTable are in the drop-and-recreate
\* sequence at once; once a call has completed successfully no call is in
\* the sequence; and the running flag is set exactly while a call is between
\* the guard and its return or its catch, so it is clear after a failure.
C30_GuardedMigration ==
    /\ \A p \in MigrationCallers, q \in MigrationCallers :
           (InSequence(p) /\ InSequence(q)) => p = q
    /\ migration.completed => \A p \in MigrationCallers : ~InSequence(p)
    /\ migration.migrationRunning <=> \E p \in MigrationCallers : HoldsFlag(p)

\* a call is in the sequence again after a call has failed, while the other
\* call was skipped because the flag is set
C30_Witness ==
    \E p \in MigrationCallers, q \in MigrationCallers :
        /\ migration.failed
        /\ InSequence(p)
        /\ migration.call[q].pc = "done"
        /\ migration.call[q].result = "already running"

====
